---- MODULE Spec2Model ----
(***************************************************************************)
(* Model of the reactive core of hotel-boq: the event bus of core/frp.py   *)
(* (subscriptions, history log, derived state, notification) and the       *)
(* memoized quote cache of core/memo.py.                                   *)
(***************************************************************************)
EXTENDS Integers, Sequences, FiniteSets, TLC

\* ------------------------------------------------------------------ bounds
MaxEvents == 3          \* publishes per behaviour
MaxSubs == 2            \* subscribe calls per behaviour
MaxNotified == 2        \* publishes per behaviour while subscriptions change (Spec)
MaxLimit == 2           \* largest limit passed to get_event_history
NumTasks == 2           \* concurrently running publish calls (SpecConc)
MaxCalls == 5           \* quote_offer calls per behaviour
NumCallers == 2         \* threads calling quote_offer at once (SpecRace)
MaxCart == 2            \* cart items per create_booking call
MaxBatch == 2           \* items per quote_batch call
MaxRequests == 2        \* requests per parallel search
MaxYield == 2           \* largest limit passed to a search
MaxChain == 3           \* map / bind calls in one chain
MaxPipe == 3            \* functions given to one pipe call or PipeLine

\* ------------------------------------------------------------ value model
PyNone == "None"

EventNames == {"SEARCH", "HOLD", "BOOKED", "CANCELLED", "PRICE_CHANGED"}
OtherNames == {"PING"}
AllNames == EventNames \cup OtherNames

StateKeys == {"active_holds", "recent_bookings", "price_changes",
              "search_queries", "cancellations"}

\* payloads a caller may put on an event of the given name
Payloads(name) ==
    CASE name = "HOLD" -> {[id |-> "h1"], [id |-> "h2"], [cart_item_id |-> "c1"]}
      [] name = "BOOKED" -> {[hold_id |-> "h1"], [hold_id |-> "h2"], [booking_id |-> "b1"]}
      [] name = "SEARCH" -> {[city |-> "Miami"]}
      [] name = "CANCELLED" -> {[booking_id |-> "b1"]}
      [] name = "PRICE_CHANGED" -> {[rate_id |-> "rate_1"]}
      [] OTHER -> {[note |-> "x"]}

\* dict.get(key): the value, or None when the key is absent
DictGet(d, k) == IF k \in DOMAIN d THEN d[k] ELSE PyNone

\* {**payload, 'event_id': event.id, 'timestamp': event.ts}
Entry(event) ==
    [k \in DOMAIN event.payload \cup {"event_id", "timestamp"} |->
        IF k = "event_id" THEN event.id
        ELSE IF k = "timestamp" THEN event.ts
        ELSE event.payload[k]]

\* ------------------------------------------------------------- variables
VARIABLES
    subscribers,     \* EventBus._subscribers: event name -> list of Subscription
    event_history,   \* EventBus._event_history
    state,           \* EventBus._state: key -> reference of a list object
    heap,            \* list objects: reference -> contents
    tasks,           \* the publish coroutines: position, event, loop index
    ret,             \* value returned by subscribe / unsubscribe, until a publish
    issued,          \* ids returned by subscribe so far
    removed,         \* ids for which unsubscribe returned True
    snap,            \* a mapping returned by get_state (or None)
    snapVal,         \* contents of that mapping's lists when it was returned
    cache,           \* quote_offer's cache: entries, least recently used first
    hits,            \* cache_info().hits
    misses,          \* cache_info().misses
    callers,         \* the calls of quote_offer in progress
    calls,           \* calls completed since the last cache_clear
    clock,           \* calls started so far
    lastAccess,      \* per cached key, when it was last inserted or hit
    booking,         \* the last create_booking call: arguments, functions run, result
    batch,           \* the quote_batch call: items, task results, returned dict
    flow,            \* the end_to_end_workflow call: position, locals, returned dict
    par,             \* the parallel search: requests, task results, returned values
    search,          \* a search over a catalogue: arguments and returned offers
    gen,             \* a lazy_search_results generator and what it has examined
    timed,           \* a search_with_timeout call: caller, future, worker thread
    chain,           \* a chain of map / bind calls on a Maybe or an Either
    checked,         \* a validate_booking call: arguments, result, functions called
    piped,           \* a pipe / PipeLine / calculate_quote call: value, functions, result
    registered       \* the subscriptions of the event's name when publish was called

busVars == <<subscribers, event_history, state, heap, tasks, ret, issued, removed,
             snap, snapVal>>

cacheVars == <<cache, hits, misses, callers, calls, clock, lastAccess>>

svcVars == <<booking, batch, flow, par>>

libVars == <<search, gen, timed, chain, checked, piped, registered>>

vars == <<busVars, cacheVars, svcVars, libVars>>

Addrs == 1..7
Tasks == 1..NumTasks

FilterKinds == {PyNone, "accept", "reject", "raise"}
CallbackKinds == {"ok", "raise", "suspend"}

NoEvent == [id |-> 0, ts |-> 0, name |-> "None", payload |-> [note |-> "x"]]

IdleTask == [pc |-> "idle", event |-> NoEvent, idx |-> 0, notified |-> <<>>,
             faults |-> 0]

\* no subscribe or unsubscribe has returned since the last publish began
NoReturn == <<"none", 0, FALSE>>

\* EventBus.__init__
BusInit ==
    /\ subscribers = [n \in {} |-> <<>>]
    /\ event_history = <<>>
    /\ state = [active_holds |-> 1, recent_bookings |-> 2, price_changes |-> 3,
                search_queries |-> 4, cancellations |-> 5]
    /\ heap = [a \in Addrs |-> <<>>]
    /\ tasks = [t \in Tasks |-> IdleTask]
    /\ ret = NoReturn
    /\ issued = 0
    /\ removed = {}
    /\ snap = <<>>
    /\ snapVal = <<>>

\* --------------------------------------------------------- scheduling
\* asyncio runs one coroutine at a time; a publish coroutine gives up the
\* event loop only while it awaits a suspended subscriber callback.
\* a suspension between the history append and the reducer
SwitchPointsWithReduce == {"idle", "await", "raised", "reduce"}

SwitchPoints == {"idle", "await", "raised"}

CanRun(t) == \A u \in Tasks \ {t} : tasks[u].pc \in SwitchPoints

Quiet == \A u \in Tasks : tasks[u].pc \in {"idle", "raised"}

\* ------------------------------------------------- subscribe / unsubscribe
Subscription(id, et, cb, fp) ==
    [id |-> id, event_type |-> et, callback |-> cb, filter_predicate |-> fp]

\* str(uuid4()): an id never produced before
FreshId == issued + 1

Subscribe(et, cb, fp) ==
    /\ Quiet
    /\ issued < MaxSubs
    /\ LET sub_id == FreshId
           base == IF et \notin DOMAIN subscribers
                   THEN [n \in DOMAIN subscribers \cup {et} |->
                            IF n = et THEN <<>> ELSE subscribers[n]]
                   ELSE subscribers
       IN /\ subscribers' = [base EXCEPT ![et] = Append(@, Subscription(sub_id, et, cb, fp))]
          /\ issued' = sub_id
          /\ ret' = <<"subscribe", sub_id, TRUE>>
    /\ UNCHANGED <<event_history, state, heap, tasks, removed, snap, snapVal>>
    /\ UNCHANGED <<cacheVars, svcVars, libVars>>

\* positions i of the list whose subscription has the id
Positions(list, sub_id) == {i \in 1..Len(list) : list[i].id = sub_id}

Min(S) == CHOOSE x \in S : \A y \in S : x <= y

\* list.pop(): the last element instead of the one found
PopLast(list, i) == SubSeq(list, 1, Len(list) - 1)

\* list.pop(i), i counted from 1
PopAt(list, i) == SubSeq(list, 1, i - 1) \o SubSeq(list, i + 1, Len(list))

\* the first subscription with the id is popped from its list
AfterUnsubscribe(subs, sub_id) ==
    LET et == CHOOSE n \in DOMAIN subs : Positions(subs[n], sub_id) # {}
    IN [subs EXCEPT ![et] = PopAt(@, Min(Positions(@, sub_id)))]

Unsubscribe(sub_id) ==
    /\ Quiet
    /\ LET found == \E n \in DOMAIN subscribers : Positions(subscribers[n], sub_id) # {}
       IN /\ subscribers' = IF found THEN AfterUnsubscribe(subscribers, sub_id)
                             ELSE subscribers
          /\ ret' = <<"unsubscribe", sub_id, found>>
          /\ removed' = IF found THEN removed \cup {sub_id} ELSE removed
    /\ UNCHANGED <<event_history, state, heap, tasks, issued, snap, snapVal>>
    /\ UNCHANGED <<cacheVars, svcVars, libVars>>

\* EventBus.get_subscriber_count; None and "" are both falsy
GetSubscriberCount(subs, event_type) ==
    IF event_type # PyNone /\ event_type # ""
    THEN IF event_type \in DOMAIN subs THEN Len(subs[event_type]) ELSE 0
    ELSE LET RECURSIVE Sum(_)
             Sum(S) == IF S = {} THEN 0
                       ELSE LET n == CHOOSE x \in S : TRUE
                            IN Len(subs[n]) + Sum(S \ {n})
         IN Sum(DOMAIN subs)

\* ------------------------------------------------------------ derived state
\* the lists the mapping m refers to
Deref(m, h) == [k \in DOMAIN m |-> h[m[k]]]

\* references held by the bus state or by the mapping handed out by get_state
Live(st, sn) == {st[k] : k \in DOMAIN st} \cup
                UNION {{sn[i][k] : k \in DOMAIN sn[i]} : i \in DOMAIN sn}

\* a list object that is not referenced any more is reclaimed
Collect(h, st, sn) == [a \in Addrs |-> IF a \in Live(st, sn) THEN h[a] ELSE <<>>]

\* the comparison made on the hold's 'hold_id' key instead of its 'id'
KeepHoldsByHoldId(holds, event) ==
    LET Keep(hold) == DictGet(hold, "hold_id") # DictGet(event.payload, "hold_id")
    IN SelectSeq(holds, Keep)

\* the list comprehension that drops the booked hold
KeepHolds(holds, event) ==
    LET Keep(hold) == DictGet(hold, "id") # DictGet(event.payload, "hold_id")
    IN SelectSeq(holds, Keep)

\* CANCELLED and PRICE_CHANGED recorded in each other's list
ListOfSwapped(name) ==
    CASE name = "HOLD" -> "active_holds"
      [] name = "BOOKED" -> "recent_bookings"
      [] name = "CANCELLED" -> "price_changes"
      [] name = "PRICE_CHANGED" -> "cancellations"
      [] name = "SEARCH" -> "search_queries"
      [] OTHER -> PyNone

\* the key whose list an event name appends to (None: no list)
ListOf(name) ==
    CASE name = "HOLD" -> "active_holds"
      [] name = "BOOKED" -> "recent_bookings"
      [] name = "CANCELLED" -> "cancellations"
      [] name = "PRICE_CHANGED" -> "price_changes"
      [] name = "SEARCH" -> "search_queries"
      [] OTHER -> PyNone

\* EventBus._update_state on the list objects: append mutates the list in
\* place, the BOOKED branch binds active_holds to a new list object
UpdateStateHeap(st, h, sn, event) ==
    LET key == ListOf(event.name)
        h1 == IF key = PyNone THEN h
              ELSE [h EXCEPT ![st[key]] = Append(@, Entry(event))]
    IN IF event.name = "BOOKED"
       THEN LET a == Min(Addrs \ Live(st, sn))
                st2 == [st EXCEPT !.active_holds = a]
                h2 == [h1 EXCEPT ![a] = KeepHolds(h1[st.active_holds], event)]
            IN [state |-> st2, heap |-> Collect(h2, st2, sn)]
       ELSE [state |-> st, heap |-> h1]

\* the reducer as a function on values: (state, event) -> state'
Reducer(sv, event) ==
    LET key == ListOf(event.name)
        s1 == IF key = PyNone THEN sv
              ELSE [sv EXCEPT ![key] = Append(@, Entry(event))]
    IN IF event.name = "BOOKED"
       THEN [s1 EXCEPT !.active_holds = KeepHolds(@, event)]
       ELSE s1

EmptyState == [k \in StateKeys |-> <<>>]

RECURSIVE Fold(_)
Fold(hist) == IF hist = <<>> THEN EmptyState
              ELSE Reducer(Fold(SubSeq(hist, 1, Len(hist) - 1)), hist[Len(hist)])

\* ----------------------------------------------------------------- publish
NewEvent(name, payload) ==
    [id |-> Len(event_history) + 1, ts |-> Len(event_history) + 1,
     name |-> name, payload |-> payload]

\* publish, line 56: the event is appended to the history
PublishEvent(t, name, payload) ==
    /\ tasks[t].pc \in {"idle", "raised"}
    /\ CanRun(t)
    /\ Len(event_history) < MaxEvents
    /\ LET event == NewEvent(name, payload)
       IN /\ event_history' = Append(event_history, event)
          /\ tasks' = [tasks EXCEPT ![t] = [pc |-> "reduce", event |-> event, idx |-> 0,
                                           notified |-> <<>>, faults |-> 0]]
    /\ ret' = NoReturn
    /\ UNCHANGED <<subscribers, state, heap, issued, removed, snap, snapVal>>

\* publish called by a client of the bus
Publish(t, name, payload) ==
    /\ PublishEvent(t, name, payload)
    /\ UNCHANGED <<cacheVars, svcVars, libVars>>

\* publish, line 59: the reducer is applied
UpdateState(t) ==
    /\ tasks[t].pc = "reduce"
    /\ CanRun(t)
    /\ LET r == UpdateStateHeap(state, heap, snap, tasks[t].event)
       IN /\ state' = r.state
          /\ heap' = r.heap
    /\ tasks' = [tasks EXCEPT ![t].pc = "notify"]
    /\ UNCHANGED <<subscribers, event_history, ret, issued, removed, snap, snapVal>>
    /\ UNCHANGED <<cacheVars, svcVars, libVars>>

\* the filter test without its "not"
FilterOutcomeNegated(sub) ==
    CASE sub.filter_predicate = PyNone -> "call"
      [] sub.filter_predicate = "accept" -> "skip"
      [] sub.filter_predicate = "reject" -> "call"
      [] OTHER -> "fault"

\* outcome of the filter test of line 66: "call", "skip" or "fault"
FilterOutcome(sub) ==
    CASE sub.filter_predicate = PyNone -> "call"
      [] sub.filter_predicate = "accept" -> "call"
      [] sub.filter_predicate = "reject" -> "skip"
      [] OTHER -> "fault"

\* no except clause: the fault leaves the loop and publish
FaultPropagates(task) == [task EXCEPT !.pc = "raised", !.faults = @ + 1]

\* the except clause of lines 73-74: the fault is reported, the loop goes on
AfterFault(task) == [task EXCEPT !.pc = "notify", !.faults = @ + 1]

\* publish, lines 62-74: one iteration of the notification loop, or its end
Notify(t) ==
    /\ tasks[t].pc = "notify"
    /\ CanRun(t)
    /\ LET task == tasks[t]
           name == task.event.name
           list == IF name \in DOMAIN subscribers THEN subscribers[name] ELSE <<>>
       IN IF task.idx >= Len(list)
          THEN tasks' = [tasks EXCEPT ![t] = IdleTask]
          ELSE LET sub == list[task.idx + 1]
                   step == [task EXCEPT !.idx = @ + 1]
                   called == [step EXCEPT !.notified = Append(@, sub.id)]
               IN tasks' = [tasks EXCEPT ![t] =
                     CASE FilterOutcome(sub) = "skip" -> step
                       [] FilterOutcome(sub) = "fault" -> AfterFault(step)
                       [] sub.callback = "ok" -> called
                       [] sub.callback = "raise" -> AfterFault(called)
                       [] OTHER -> [called EXCEPT !.pc = "await"]]
    /\ UNCHANGED <<subscribers, event_history, state, heap, ret, issued, removed,
                   snap, snapVal>>
    /\ UNCHANGED <<cacheVars, svcVars, libVars>>

\* the awaited callback completes, normally or with a fault, and the loop
\* goes on
Resume(t) ==
    /\ tasks[t].pc = "await"
    /\ CanRun(t)
    /\ \E fault \in BOOLEAN :
          tasks' = [tasks EXCEPT ![t] =
                      IF fault THEN AfterFault(@) ELSE [@ EXCEPT !.pc = "notify"]]
    /\ UNCHANGED <<subscribers, event_history, state, heap, ret, issued, removed,
                   snap, snapVal>>
    /\ UNCHANGED <<cacheVars, svcVars, libVars>>

\* ------------------------------------------- callbacks that call the bus
\* callbacks that call unsubscribe with their own id, unsubscribe with the
\* id of the first subscription made, or subscribe for the event's name
ReentrantKinds == {"unsubscribe_self", "unsubscribe_first", "subscribe"}

\* ids a bus hands out before the callbacks stop subscribing
MaxIssued == 2 * MaxSubs + 1

\* the subscription the notification loop is at calls the bus
CallsBus(t) ==
    LET name == tasks[t].event.name
        list == IF name \in DOMAIN subscribers THEN subscribers[name] ELSE <<>>
    IN  /\ tasks[t].idx < Len(list)
        /\ list[tasks[t].idx + 1].callback \in ReentrantKinds
        /\ FilterOutcome(list[tasks[t].idx + 1]) = "call"

\* publish, lines 62-74: one iteration of the loop whose callback calls
\* unsubscribe (lines 45-52) or subscribe (lines 28-43) before it returns
NotifyCalling(t) ==
    /\ tasks[t].pc = "notify"
    /\ CanRun(t)
    /\ CallsBus(t)
    /\ LET name == tasks[t].event.name
           sub == subscribers[name][tasks[t].idx + 1]
           sub_id == IF sub.callback = "unsubscribe_self" THEN sub.id ELSE 1
           found == \E n \in DOMAIN subscribers : Positions(subscribers[n], sub_id) # {}
       IN  /\ tasks' = [tasks EXCEPT ![t].idx = @ + 1,
                                     ![t].notified = Append(@, sub.id)]
           /\ IF sub.callback = "subscribe"
              THEN /\ issued < MaxIssued
                   /\ subscribers' = [subscribers EXCEPT ![name] =
                                         Append(@, Subscription(FreshId, name, "ok", PyNone))]
                   /\ issued' = FreshId
                   /\ ret' = <<"subscribe", FreshId, TRUE>>
                   /\ UNCHANGED removed
              ELSE /\ subscribers' = IF found THEN AfterUnsubscribe(subscribers, sub_id)
                                     ELSE subscribers
                   /\ ret' = <<"unsubscribe", sub_id, found>>
                   /\ removed' = IF found THEN removed \cup {sub_id} ELSE removed
                   /\ UNCHANGED issued
    /\ UNCHANGED <<event_history, state, heap, snap, snapVal>>
    /\ UNCHANGED <<cacheVars, svcVars, libVars>>

\* publish is called on a bus with subscriptions whose callbacks call the bus
PublishRegistered(t, name, payload) ==
    /\ PublishEvent(t, name, payload)
    /\ registered' = IF name \in DOMAIN subscribers THEN subscribers[name] ELSE <<>>
    /\ UNCHANGED <<cacheVars, svcVars>>
    /\ UNCHANGED <<search, gen, timed, chain, checked, piped>>

\* ------------------------------------------------------------------ queries
\* EventBus.get_state: dict.copy() copies the mapping, not the lists
GetState ==
    /\ \A u \in Tasks : tasks[u].pc \in SwitchPoints
    /\ snap' = <<state>>
    /\ snapVal' = <<Deref(state, heap)>>
    /\ heap' = Collect(heap, state, snap')
    /\ UNCHANGED <<subscribers, event_history, state, tasks, ret, issued, removed>>
    /\ UNCHANGED <<cacheVars, svcVars, libVars>>

\* seq[-limit:] of Python, for limit >= 0
LastSlice(seq, limit) ==
    LET n == Len(seq)
        start == IF limit = 0 THEN 0
                 ELSE IF n - limit < 0 THEN 0 ELSE n - limit
    IN SubSeq(seq, start + 1, n)

\* EventBus.get_event_history; None and "" are both falsy
GetEventHistory(hist, limit, event_type) ==
    LET Match(e) == e.name = event_type
        events == IF event_type # PyNone /\ event_type # ""
                  THEN SelectSeq(hist, Match) ELSE hist
    IN LastSlice(events, limit)

\* ------------------------------------------------------ memoized quotes
\* @lru_cache(maxsize=128)
maxsize == 128

\* entries in the cache when the hot phase of a warmed-up cache begins
Warm == maxsize - 2

Callers == {1}

Valid == <<"2024-01-01", "2024-01-03">>
Invalid == <<"2024-01-01", "03/01/2024">>

\* argument tuples: (hotel_id, room_type_id, rate_id, checkin, checkout, guests)
Args(hotel, dates) == <<hotel, "room_1", "rate_1", dates[1], dates[2], 2>>

\* hotels quoted once the cache is warm: two cached ones and new ones
HotHotels == {1, 2} \cup (Warm + 1 .. Warm + 3)

\* datetime.strptime(s, '%Y-%m-%d') as a day number; -1: ValueError
ParseDate(s) ==
    CASE s = "2024-01-01" -> 1
      [] s = "2024-01-03" -> 3
      [] s = "2024-01-15" -> 15
      [] s = "2024-01-18" -> 18
      [] s = "2024-02-01" -> 32
      [] OTHER -> -1

\* a price per guest instead of a price per stay
ComputePerGuest(args, now) ==
    LET checkin_date == ParseDate(args[4])
        checkout_date == ParseDate(args[5])
        nights == checkout_date - checkin_date
        base_price == nights * 100 * args[6]
    IN IF checkin_date = -1 \/ checkout_date = -1
       THEN [ok |-> FALSE]
       ELSE [ok |-> TRUE, hotel_id |-> args[1], room_type_id |-> args[2],
             rate_id |-> args[3], checkin |-> args[4], checkout |-> args[5],
             guests |-> args[6], nights |-> nights, total_price |-> base_price,
             currency |-> "USD", calculated_at |-> now]

\* the body of quote_offer, lines 21-42; "error" when strptime raises
Compute(args, now) ==
    LET checkin_date == ParseDate(args[4])
        checkout_date == ParseDate(args[5])
        nights == checkout_date - checkin_date
        base_price == nights * 100
    IN IF checkin_date = -1 \/ checkout_date = -1
       THEN [ok |-> FALSE]
       ELSE [ok |-> TRUE, hotel_id |-> args[1], room_type_id |-> args[2],
             rate_id |-> args[3], checkin |-> args[4], checkout |-> args[5],
             guests |-> args[6], nights |-> nights, total_price |-> base_price,
             currency |-> "USD", calculated_at |-> now]

CachedKeys(ch) == {ch[i].key : i \in DOMAIN ch}

IndexOfKey(ch, key) == CHOOSE i \in DOMAIN ch : ch[i].key = key

\* a hit that leaves the entry where it is in the recency order
NoTouch(ch, key) == ch

\* a hit moves the entry to the most recently used end
Touch(ch, key) ==
    LET i == IndexOfKey(ch, key)
    IN SubSeq(ch, 1, i - 1) \o SubSeq(ch, i + 1, Len(ch)) \o <<ch[i]>>

\* a hit that is not counted
LookupUncounted(ch, h, m, key) ==
    IF key \in CachedKeys(ch)
    THEN [hit |-> TRUE, cache |-> Touch(ch, key), hits |-> h, misses |-> m]
    ELSE [hit |-> FALSE, cache |-> ch, hits |-> h, misses |-> m + 1]

\* the cache lookup of the wrapper: a hit is counted and returned, a miss is
\* counted before the function is called
Lookup(ch, h, m, key) ==
    IF key \in CachedKeys(ch)
    THEN [hit |-> TRUE, cache |-> Touch(ch, key), hits |-> h + 1, misses |-> m]
    ELSE [hit |-> FALSE, cache |-> ch, hits |-> h, misses |-> m + 1]

\* the result is stored without looking whether the key got cached meanwhile
StoreAgain(ch, key, result) ==
    IF Len(ch) < maxsize THEN Append(ch, [key |-> key, result |-> result])
    ELSE Append(Tail(ch), [key |-> key, result |-> result])

\* the result is stored: nothing to do when the key got cached meanwhile,
\* a new entry when there is room, else the oldest entry is replaced
Store(ch, key, result) ==
    IF key \in CachedKeys(ch) THEN ch
    ELSE IF Len(ch) < maxsize THEN Append(ch, [key |-> key, result |-> result])
    ELSE Append(Tail(ch), [key |-> key, result |-> result])

\* what a caller holds before quote_offer has returned a quote to it
NoQuote == [ok |-> FALSE]

IdleCaller == [pc |-> "idle", key |-> Args(0, Valid), outcome |-> "none",
               result |-> NoQuote]

\* the cache right after import
ColdCache ==
    /\ cache = <<>>
    /\ hits = 0
    /\ misses = 0
    /\ calls = 0
    /\ clock = 0
    /\ lastAccess = [k \in {} |-> 0]

\* the cache after quoting hotels 1..Warm once each, in this order
WarmCache ==
    /\ cache = [i \in 1..Warm |->
                  [key |-> Args(i, Valid), result |-> Compute(Args(i, Valid), i)]]
    /\ hits = 0
    /\ misses = Warm
    /\ calls = Warm
    /\ clock = Warm
    /\ lastAccess = [k \in {Args(i, Valid) : i \in 1..Warm} |-> k[1]]

CacheInit ==
    /\ callers = [c \in Callers |-> IdleCaller]
    /\ ColdCache

\* the ghost record of accesses keeps cached keys only
Accessed(la, ch, key, now) ==
    [k \in CachedKeys(ch) |-> IF k = key THEN now ELSE la[k]]

\* at most MaxCalls calls are started from a cold or from a warm cache
InBudget(now) == IF now < Warm THEN now < MaxCalls ELSE now < Warm + MaxCalls

\* quote_offer(*key) is called: the wrapper looks the key up
Call(c, key) ==
    /\ callers[c].pc = "idle"
    /\ InBudget(clock)
    /\ clock' = clock + 1
    /\ LET r == Lookup(cache, hits, misses, key)
       IN /\ cache' = r.cache
          /\ hits' = r.hits
          /\ misses' = r.misses
          /\ IF r.hit
             THEN /\ callers' = [callers EXCEPT ![c] =
                                   [pc |-> "idle", key |-> key, outcome |-> "hit",
                                    result |-> cache[IndexOfKey(cache, key)].result]]
                  /\ calls' = calls + 1
                  /\ lastAccess' = Accessed(lastAccess, cache', key, clock')
             ELSE /\ callers' = [callers EXCEPT ![c] =
                                   [pc |-> "compute", key |-> key, outcome |-> "none",
                                    result |-> NoQuote]]
                  /\ UNCHANGED <<calls, lastAccess>>
    /\ UNCHANGED <<busVars, svcVars, libVars>>

\* the function body has run: its result is cached and returned, or its
\* ValueError leaves the wrapper
Return(c) ==
    /\ callers[c].pc = "compute"
    /\ LET key == callers[c].key
           result == Compute(key, clock)
       IN /\ cache' = IF result.ok THEN Store(cache, key, result) ELSE cache
          /\ callers' = [callers EXCEPT ![c] =
                           [pc |-> "idle", key |-> key,
                            outcome |-> IF result.ok THEN "miss" ELSE "raised",
                            result |-> result]]
          /\ lastAccess' = IF result.ok /\ key \notin CachedKeys(cache)
                           THEN Accessed(lastAccess, cache', key, clock)
                           ELSE lastAccess
    /\ calls' = calls + 1
    /\ UNCHANGED <<hits, misses, clock>>
    /\ UNCHANGED <<busVars, svcVars, libVars>>

\* quote_offer.cache_clear()
CacheClear ==
    /\ \A c \in Callers : callers[c].pc = "idle"
    /\ cache # <<>> \/ hits + misses > 0
    /\ cache' = <<>>
    /\ hits' = 0
    /\ misses' = 0
    /\ calls' = 0
    /\ lastAccess' = [k \in {} |-> 0]
    /\ callers' = [c \in Callers |-> IdleCaller]
    /\ UNCHANGED clock
    /\ UNCHANGED <<busVars, svcVars, libVars>>

RECURSIVE Gcd(_, _)
Gcd(a, b) == IF b = 0 THEN a ELSE Gcd(b, a % b)

\* the quotient a / b as a fraction in lowest terms
Quotient(a, b) == <<a \div Gcd(a, b), b \div Gcd(a, b)>>

\* hits / misses instead of hits / (hits + misses)
StatsOverMisses(ch, h, m) ==
    [hits |-> h, misses |-> m, maxsize |-> maxsize, currsize |-> Len(ch),
     hit_ratio |-> IF h + m > 0 /\ m > 0 THEN Quotient(h, m) ELSE <<0, 1>>]

\* get_memoization_stats
GetMemoizationStats(ch, h, m) ==
    [hits |-> h, misses |-> m, maxsize |-> maxsize, currsize |-> Len(ch),
     hit_ratio |-> IF h + m > 0 THEN Quotient(h, h + m) ELSE <<0, 1>>]

\* ------------------------------------------------------- Either, PipeLine
\* Either.right / Either.left of core/ftypes.py
Right(value) == [is_right |-> TRUE, value |-> value]
Left(error) == [is_right |-> FALSE, error |-> error]

\* Maybe.just / Maybe.nothing
Just(value) == [is_just |-> TRUE, value |-> value]
Nothing == [is_just |-> FALSE]

\* the values and errors carried, and the pure functions given to map and
\* bind, as functions on the values
Values == {0, 1, 2}
Errors == {"e1", "e2"}
Maybes == {Just(x) : x \in Values} \cup {Nothing}
Eithers == {Right(x) : x \in Values} \cup {Left(err) : err \in Errors}

\* _Just.map / _Nothing.map, lines 53-54 and 76-77: the result, and how
\* often func was called
MaybeMap(self, func) ==
    IF self.is_just THEN [out |-> Just(func[self.value]), calls |-> 1]
    ELSE [out |-> Nothing, calls |-> 0]

\* _Just.bind / _Nothing.bind, lines 56-57 and 79-80
MaybeBind(self, func) ==
    IF self.is_just THEN [out |-> func[self.value], calls |-> 1]
    ELSE [out |-> Nothing, calls |-> 0]

\* _Right.map / _Left.map, lines 141-142 and 167-168
EitherMap(self, func) ==
    IF self.is_right THEN [out |-> Right(func[self.value]), calls |-> 1]
    ELSE [out |-> Left(self.error), calls |-> 0]

\* a bind that calls func on a Left too and drops what it returns
EitherBindCallsOnLeft(self, func) ==
    IF self.is_right THEN [out |-> func[self.value], calls |-> 1]
    ELSE [out |-> Left(self.error), calls |-> 1]

\* _Right.bind / _Left.bind, lines 144-145 and 170-171
EitherBind(self, func) ==
    IF self.is_right THEN [out |-> func[self.value], calls |-> 1]
    ELSE [out |-> Left(self.error), calls |-> 0]

\* no chain yet
IdleChain == [start |-> Nothing, m |-> Nothing, calls |-> 0, ops |-> <<>>]

\* .map(func) is called on the value the chain has reached
ChainMap(func) ==
    /\ Len(chain.ops) < MaxChain
    /\ LET made == IF "is_just" \in DOMAIN chain.m THEN MaybeMap(chain.m, func)
                   ELSE EitherMap(chain.m, func)
       IN chain' = [chain EXCEPT !.m = made.out, !.calls = @ + made.calls,
                                 !.ops = Append(@, "map")]
    /\ UNCHANGED <<busVars, cacheVars, svcVars>>
    /\ UNCHANGED <<search, gen, timed, checked, piped, registered>>

\* .bind(func) is called on the value the chain has reached
ChainBind(func) ==
    /\ Len(chain.ops) < MaxChain
    /\ LET made == IF "is_just" \in DOMAIN chain.m THEN MaybeBind(chain.m, func)
                   ELSE EitherBind(chain.m, func)
       IN chain' = [chain EXCEPT !.m = made.out, !.calls = @ + made.calls,
                                 !.ops = Append(@, "bind")]
    /\ UNCHANGED <<busVars, cacheVars, svcVars>>
    /\ UNCHANGED <<search, gen, timed, checked, piped, registered>>

\* ------------------------------------------------------------------ validate_booking
\* validate_cart_item, lines 237-255; dates are day numbers, ordered as the
\* 'YYYY-MM-DD' strings are
ValidateCartItem(item, availability, rules) ==
    LET available ==
            IF availability # <<>>
            THEN \E i \in DOMAIN availability :
                    /\ availability[i].room_type_id = item.room_type_id
                    /\ availability[i].date >= item.checkin
                    /\ availability[i].date < item.checkout
                    /\ availability[i].available > 0
            ELSE TRUE
    IN  IF ~available THEN Left(<<"No availability for selected dates">>)
        ELSE IF item.guests > 4
             THEN Left(<<"Guest count exceeds maximum room capacity">>)
             ELSE Right(item)

\* sum(item.guests * 100 for item in booking.items), lines 278-280
RECURSIVE CalculatedTotal(_)
CalculatedTotal(items) ==
    IF items = <<>> THEN 0
    ELSE Head(items).guests * 100 + CalculatedTotal(Tail(items))

\* a total check that rejects a difference of exactly the tolerance
ValidateBookingTotalStrict(booking_, prices) ==
    LET calculated_total == CalculatedTotal(booking_.items)
        difference == calculated_total - booking_.total
    IN  IF (IF difference < 0 THEN 0 - difference ELSE difference) >= 10
        THEN Left(<<"Price mismatch detected. Expected: ", calculated_total,
                    ", Got: ", booking_.total>>)
        ELSE Right(booking_)

\* validate_booking_total, lines 276-285
ValidateBookingTotal(booking_, prices) ==
    LET calculated_total == CalculatedTotal(booking_.items)
        difference == calculated_total - booking_.total
    IN  IF (IF difference < 0 THEN 0 - difference ELSE difference) > 10
        THEN Left(<<"Price mismatch detected. Expected: ", calculated_total,
                    ", Got: ", booking_.total>>)
        ELSE Right(booking_)

\* the loop of validate_booking, lines 265-270: items[1..n] have been bound;
\* item_calls counts the calls of validate_item
RECURSIVE ValidateItems(_, _, _, _)
ValidateItems(booking_, n, availability, rules) ==
    IF n = 0 THEN [out |-> Right(booking_), item_calls |-> 0]
    ELSE LET validation_result == ValidateItems(booking_, n - 1, availability, rules)
             item == booking_.items[n]
             bound == EitherBind(validation_result.out,
                         [b \in {booking_} |->
                             EitherMap(ValidateCartItem(item, availability, rules),
                                       [x \in {item} |-> b]).out])
         IN  [out |-> bound.out,
              item_calls |-> validation_result.item_calls + bound.calls]

\* validate_booking, lines 258-273
EitherValidateBooking(booking_, prices, availability, rules) ==
    LET validation_result ==
            ValidateItems(booking_, Len(booking_.items), availability, rules)
        bound == EitherBind(validation_result.out,
                     [b \in {booking_} |-> ValidateBookingTotal(b, prices)])
    IN  [out |-> bound.out,
         item_calls |-> validation_result.item_calls,
         total_calls |-> bound.calls]

IdleChecked == [pc |-> "idle", booking |-> [items |-> <<>>, total |-> 0],
                availability |-> <<>>, result |-> Left(<<>>),
                item_calls |-> 0, total_calls |-> 0]

\* a caller calls validate_booking (src/app/main.py, lines 423-428)
ValidateBookingCall ==
    /\ checked.pc = "ready"
    /\ LET r == EitherValidateBooking(checked.booking, <<>>, checked.availability, <<>>)
       IN  checked' = [checked EXCEPT !.pc = "done", !.result = r.out,
                                      !.item_calls = r.item_calls,
                                      !.total_calls = r.total_calls]
    /\ UNCHANGED <<busVars, cacheVars, svcVars>>
    /\ UNCHANGED <<search, gen, timed, chain, piped, registered>>

\* _Right.get_or_else returns the value, _Left.get_or_else the default
GetOrElse(either, default) == IF either.is_right THEN either.value ELSE default

\* compose(*functions): reduce(lambda acc, f: f(acc), reversed(functions), arg),
\* the order in which the functions are applied to the argument
ComposeOrder(functions) ==
    [i \in 1..Len(functions) |-> functions[Len(functions) + 1 - i]]

\* pipe(value, *functions) is compose(*functions)(value)
PipeOrder(functions) == ComposeOrder(functions)

\* reduce(lambda acc, f: f(acc), order, arg) for functions on Values
RECURSIVE Reduce(_, _)
Reduce(order, acc) ==
    IF order = <<>> THEN acc ELSE Reduce(Tail(order), Head(order)[acc])

\* compose(*functions)(arg), lines 10-14
Compose(functions, arg) == Reduce(ComposeOrder(functions), arg)

\* pipe(value, *functions), lines 16-18
Pipe(value, functions) == Compose(functions, value)

\* no pipe has been called and no PipeLine made; a PipeLine's _value is <<>>
\* for None and <<v>> for a value v
IdlePiped == [pc |-> "idle", kind |-> "pipe", value |-> <<>>, functions |-> <<>>,
              result |-> <<>>, trace |-> <<>>]

\* ------------------------------------------------------- booking service
\* guests a caller may book for: complete, no name, no email, an email
\* without '@', no id
Guests ==
    {[id |-> "g1", name |-> "Ann", email |-> "ann@example.com"],
     [id |-> "g1", name |-> "", email |-> "ann@example.com"],
     [id |-> "g1", name |-> "Ann", email |-> ""],
     [id |-> "g1", name |-> "Ann", email |-> "ann.example.com"],
     [id |-> "g1", email |-> "ann@example.com"],
     [name |-> "Ann", email |-> "ann@example.com"]}

\* '@' in email
ContainsAt(email) == email = "ann@example.com"

\* truth value of a string or None
Truthy(v) == v # PyNone /\ v # ""

\* room_type_id.startswith('sold_out')
SoldOut(room_type_id) == room_type_id = "sold_out_1"

\* cart items a caller may book
CartItems == {[room_type_id |-> r, guests |-> g] : r \in {"room_1", "sold_out_1"}, g \in 1..2}

RECURSIVE SeqsUpTo(_, _)
SeqsUpTo(S, n) ==
    IF n = 0 THEN {<<>>}
    ELSE LET shorter == SeqsUpTo(S, n - 1)
         IN shorter \cup {Append(s, x) : s \in shorter, x \in S}

\* booking_data as create_booking builds it has a guest; a Booking has none
IsDict(data) == "guest" \in DOMAIN data

\* validate_guest_data, lines 355-369
ValidateGuestData(booking_data) ==
    LET guest == booking_data.guest
    IN IF ~Truthy(DictGet(guest, "name")) THEN Left("Guest name is required")
       ELSE IF ~Truthy(DictGet(guest, "email")) THEN Left("Guest email is required")
       ELSE IF ~ContainsAt(guest.email) THEN Left("Invalid email format")
       ELSE Right(booking_data)

\* validate_availability, lines 371-379
ValidateAvailability(booking_data) ==
    LET items == booking_data.items
        sold == {i \in DOMAIN items : SoldOut(items[i].room_type_id)}
    IN IF sold # {} THEN Left("Room sold_out_1 is not available")
       ELSE Right(booking_data)

\* the validators of create_booking_service, in their order
RunValidator(name, booking_data) ==
    IF name = "validate_guest_data" THEN ValidateGuestData(booking_data)
    ELSE ValidateAvailability(booking_data)

Validators == <<"validate_guest_data", "validate_availability">>

Raised(error) == [raised |-> TRUE, error |-> error]
Returned(value) == [raised |-> FALSE, value |-> value]

\* _validate_booking, lines 215-221: the first Left raises ValueError with
\* result.get_or_else("Validation failed")
ValidateBooking(booking_data) ==
    IF ~IsDict(booking_data) THEN Raised("'Booking' object has no attribute 'get'")
    ELSE LET failing == {i \in DOMAIN Validators :
                            ~RunValidator(Validators[i], booking_data).is_right}
         IN IF failing = {} THEN Returned(booking_data)
            ELSE Raised(GetOrElse(RunValidator(Validators[Min(failing)], booking_data),
                                  "Validation failed"))

\* calculate_item_price: item.guests * 100 * nights with nights = 3
CalculateItemPrice(item) == item.guests * 100 * 3

RECURSIVE SumPrices(_)
SumPrices(items) ==
    IF items = <<>> THEN 0 ELSE CalculateItemPrice(Head(items)) + SumPrices(Tail(items))

\* _calculate_totals, lines 223-229
CalculateTotals(booking_data) ==
    IF ~IsDict(booking_data) THEN Raised("'Booking' object is not subscriptable")
    ELSE Returned([k \in DOMAIN booking_data \cup {"total"} |->
                      IF k = "total" THEN SumPrices(booking_data.items)
                      ELSE booking_data[k]])

\* _finalize_booking and finalize_booking, lines 231-233 and 388-397; a
\* missing key raises KeyError, whose str() is the quoted key
FinalizeBooking(booking_data) ==
    IF ~IsDict(booking_data) THEN Raised("'Booking' object is not subscriptable")
    ELSE IF "id" \notin DOMAIN booking_data.guest THEN Raised("'id'")
    ELSE IF "total" \notin DOMAIN booking_data THEN Raised("'total'")
    ELSE Returned([id |-> "booking_1", guest_id |-> booking_data.guest.id,
                   items |-> booking_data.items, total |-> booking_data.total,
                   status |-> "confirmed"])

ApplyStage(stage, value) ==
    CASE stage = "_validate_booking" -> ValidateBooking(value)
      [] stage = "_calculate_totals" -> CalculateTotals(value)
      [] OTHER -> FinalizeBooking(value)

\* the functions mapped onto the PipeLine, in the order of the .map calls
Stages == <<"_validate_booking", "_calculate_totals", "_finalize_booking">>

\* the functions are applied one after the other until one raises
RECURSIVE ApplyAll(_, _, _)
ApplyAll(order, value, trace) ==
    IF order = <<>> THEN [raised |-> FALSE, value |-> value, trace |-> trace]
    ELSE LET r == ApplyStage(Head(order), value)
             invoked == Append(trace, Head(order))
         IN IF r.raised THEN [raised |-> TRUE, error |-> r.error, trace |-> invoked]
            ELSE ApplyAll(Tail(order), r.value, invoked)

\* PipeLine.run, compose.py lines 38-69
RunPipeLine(value, functions) == ApplyAll(PipeOrder(functions), value, <<>>)

\* create_booking, lines 142-168
CreateBookingResult(guest, cart_items) ==
    LET run == RunPipeLine([guest |-> guest, items |-> cart_items], Stages)
    IN [called |-> TRUE, guest |-> guest, items |-> cart_items,
        result |-> IF run.raised THEN Left(run.error) ELSE Right(run.value),
        trace |-> run.trace]

NoBooking == [called |-> FALSE, guest |-> [id |-> ""], items |-> <<>>,
              result |-> Left(""), trace |-> <<>>]

\* ---------------------------------------------------------------- search
\* search requests; a value is a pair of its Python type and itself
Requests ==
    {[city |-> <<"str", "Paris">>],
     [city |-> <<"str", "Rome">>],
     [city |-> <<"int", "5">>],
     [city |-> <<"str", "PARIS">>, limit |-> 1],
     [city |-> <<"str", "Miami">>, checkin |-> "2024-01-01", checkout |-> "2024-01-03",
      guests |-> 1],
     [guests |-> 2]}

\* str.lower()
Lower(s) ==
    CASE s \in {"Paris", "PARIS"} -> "paris"
      [] s = "Rome" -> "rome"
      [] s \in {"Miami", "MIAMI"} -> "miami"
      [] s = "New York" -> "new york"
      [] s = "Denver" -> "denver"
      [] OTHER -> s

\* request.get('limit', 50)
DefaultLimit == 50
LimitOf(request) == IF "limit" \in DOMAIN request THEN request.limit ELSE DefaultLimit

\* all_results.extend(results) for every list, service.py lines 675-678; also
\* used for the nested loops of lazy_offers
RECURSIVE Flatten(_)
Flatten(lists) == IF lists = <<>> THEN <<>> ELSE Head(lists) \o Flatten(Tail(lists))

\* a catalogue with price and availability records; the room types are not
\* grouped by hotel, a rate has several price records, a room several days
SeedData ==
    [hotels |->
        <<[id |-> "h1", stars |-> 3, city |-> "Paris", features |-> {"wifi"}],
          [id |-> "h2", stars |-> 4, city |-> "Miami", features |-> {"pool"}],
          [id |-> "h3", stars |-> 4, city |-> "Paris", features |-> {"wifi", "pool"}]>>,
     room_types |->
        <<[id |-> "r4", hotel_id |-> "h3", capacity |-> 2, features |-> {}],
          [id |-> "r1", hotel_id |-> "h1", capacity |-> 2, features |-> {"pool"}],
          [id |-> "r3", hotel_id |-> "h2", capacity |-> 3, features |-> {"wifi"}],
          [id |-> "r2", hotel_id |-> "h1", capacity |-> 3, features |-> {}],
          [id |-> "r5", hotel_id |-> "h3", capacity |-> 0, features |-> {}]>>,
     rates |->
        <<[id |-> "a1", room_type_id |-> "r1"],
          [id |-> "a5", room_type_id |-> "r4"],
          [id |-> "a2", room_type_id |-> "r1"],
          [id |-> "a3", room_type_id |-> "r2"],
          [id |-> "a4", room_type_id |-> "r3"],
          [id |-> "a6", room_type_id |-> "r5"]>>,
     prices |->
        <<[rate_id |-> "a1", amount |-> 150],
          [rate_id |-> "a1", amount |-> 90],
          [rate_id |-> "a2", amount |-> 80],
          [rate_id |-> "a4", amount |-> 150],
          [rate_id |-> "a6", amount |-> 0]>>,
     availability |->
        <<[room_type_id |-> "r1", available |-> 0],
          [room_type_id |-> "r1", available |-> 2],
          [room_type_id |-> "r2", available |-> 0],
          [room_type_id |-> "r4", available |-> 1]>>]

\* State._create_fallback_data, main.py lines 82-130: the hotels, room types
\* and rate plans of the first three hotels; no price, no availability
FallbackData ==
    [hotels |->
        <<[id |-> "hotel_1", stars |-> 5, city |-> "New York",
           features |-> {"wifi", "pool", "spa", "gym"}],
          [id |-> "hotel_2", stars |-> 4, city |-> "Miami",
           features |-> {"beach", "pool", "restaurant", "spa"}],
          [id |-> "hotel_3", stars |-> 3, city |-> "Denver",
           features |-> {"wifi", "restaurant", "parking"}]>>,
     room_types |->
        <<[id |-> "room_1", hotel_id |-> "hotel_1", capacity |-> 2,
           features |-> {"wifi", "tv", "ac", "minibar"}],
          [id |-> "room_2", hotel_id |-> "hotel_1", capacity |-> 3,
           features |-> {"wifi", "tv", "ac", "minibar", "jacuzzi"}],
          [id |-> "room_6", hotel_id |-> "hotel_2", capacity |-> 2,
           features |-> {"wifi", "tv", "ac", "balcony", "ocean_view"}],
          [id |-> "room_7", hotel_id |-> "hotel_2", capacity |-> 3,
           features |-> {"wifi", "tv", "ac", "private_terrace"}]>>,
     rates |->
        <<[id |-> "rate_1", room_type_id |-> "room_1"],
          [id |-> "rate_2", room_type_id |-> "room_1"],
          [id |-> "rate_3", room_type_id |-> "room_6"]>>,
     prices |-> <<>>,
     availability |-> <<>>]

Catalogues == <<SeedData, FallbackData>>

\* an index of lazy_offers, lines 26-49, read with .get(key, []): the
\* records of that key in the order of the input tuple
ByKey(records, field, key) ==
    LET HasKey(r) == r[field] = key
    IN SelectSeq(records, HasKey)

\* lines 59-65: the first price of the rate or 100, any(available > 0)
Candidate(cat, hotel, room_type, rate) ==
    LET rate_prices == ByKey(cat.prices, "rate_id", rate.id)
        room_availability == ByKey(cat.availability, "room_type_id", room_type.id)
    IN [hotel |-> hotel, room_type |-> room_type, rate |-> rate,
        price_per_night |-> IF rate_prices # <<>> THEN rate_prices[1].amount ELSE 100,
        available |-> \E i \in DOMAIN room_availability :
                         room_availability[i].available > 0]

\* the three nested loops of lines 52-58: hotel, its rooms, the room's rates
Candidates(cat) ==
    Flatten([h \in 1..Len(cat.hotels) |->
        LET hotel_rooms == ByKey(cat.room_types, "hotel_id", cat.hotels[h].id)
        IN Flatten([r \in 1..Len(hotel_rooms) |->
              LET room_rates == ByKey(cat.rates, "room_type_id", hotel_rooms[r].id)
              IN [k \in 1..Len(room_rates) |->
                    Candidate(cat, cat.hotels[h], hotel_rooms[r], room_rates[k])]])])

\* filters.get(key) is truthy: the key is there and its value is not '', 0
\* or an empty tuple
Given(filters, key) ==
    /\ key \in DOMAIN filters
    /\ CASE key = "city" -> filters[key] # ""
         [] key = "features" -> filters[key] # {}
         [] OTHER -> filters[key] # 0

\* search_predicate, lazy.py lines 82-108
Matches(filters, c) ==
    /\ ~(Given(filters, "city") /\ Lower(c.hotel.city) # Lower(filters.city))
    /\ ~(Given(filters, "min_stars") /\ c.hotel.stars < filters.min_stars)
    /\ ~(Given(filters, "guests") /\ c.room_type.capacity < filters.guests)
    /\ ~(Given(filters, "max_price") /\ c.price_per_night > filters.max_price)
    /\ ~(/\ Given(filters, "features")
         /\ ~(filters.features \subseteq (c.hotel.features \cup c.room_type.features)))

\* lazy_offers with search_predicate, line 110: the offers in walk order
LazyOffers(cat, filters) ==
    LET Passes(c) == Matches(filters, c)
    IN SelectSeq(Candidates(cat), Passes)

\* the dict of lines 117-124
Offer(c) ==
    [hotel |-> c.hotel, room_type |-> c.room_type, rate |-> c.rate,
     price_per_night |-> c.price_per_night, available |-> c.available,
     total_price |-> c.price_per_night * 3]

\* "if limit and count >= limit" with count results yielded, line 114; the
\* limit keyword is None when it is not passed
LimitReached(kwargs, count) ==
    Given(kwargs, "limit") /\ count >= kwargs.limit

\* list(lazy_search_results(..., filters, limit)), lines 110-125: offers
\* are yielded until an offer arrives with the limit reached
LazySearchList(cat, filters, kwargs) ==
    LET offers == LazyOffers(cat, filters)
        stops == {i \in 1..Len(offers) : LimitReached(kwargs, i - 1)}
        yielded == IF stops = {} THEN Len(offers)
                   ELSE Min(stops) - 1
    IN [i \in 1..yielded |-> Offer(offers[i])]

\* apply_filters, service.py lines 34-35, over the filters of
\* create_search_service, lines 240-257: a result has no search_city, no
\* search_guests and no search_max_price
ApplyFilters(result) == result.room_type.capacity >= 1

\* price_scorer, rating_scorer, availability_scorer, lines 259-269
Score(scorer, result) ==
    CASE scorer = "price" -> 0 - result.price_per_night
      [] scorer = "rating" -> result.hotel.stars
      [] scorer = "availability" -> IF result.available THEN 1 ELSE 0

\* the scorers of create_search_service, lines 277-281
DefaultScorers == <<"price", "rating", "availability">>

\* an ascending sort read backwards: equal keys change places
RECURSIVE SortAscendingReversed(_, _)
SortAscendingReversed(results, scorer) ==
    IF results = <<>> THEN <<>>
    ELSE LET rest == SortAscendingReversed(Tail(results), scorer)
             IsNotWorse(r) == Score(scorer, r) >= Score(scorer, Head(results))
             IsWorse(r) == ~IsNotWorse(r)
         IN SelectSeq(rest, IsNotWorse) \o <<Head(results)>> \o SelectSeq(rest, IsWorse)

\* list.sort(key=scorer, reverse=True), line 50: stable, equal keys keep
\* the order they had
RECURSIVE SortDescending(_, _)
SortDescending(results, scorer) ==
    IF results = <<>> THEN <<>>
    ELSE LET rest == SortDescending(Tail(results), scorer)
             IsBetter(r) == Score(scorer, r) > Score(scorer, Head(results))
             IsNotBetter(r) == ~IsBetter(r)
         IN SelectSeq(rest, IsBetter) \o <<Head(results)>> \o SelectSeq(rest, IsNotBetter)

\* "for scorer in self.scorers: filtered_results.sort(...)", lines 48-50
RECURSIVE ApplyScorers(_, _)
ApplyScorers(results, scorers) ==
    IF scorers = <<>> THEN results
    ELSE ApplyScorers(SortDescending(results, Head(scorers)), Tail(scorers))

\* filtered_results of SearchService.search before it is sorted, lines 37-45
FilteredResults(cat, search_request) ==
    LET results == LazySearchList(cat, search_request,
                                  [limit |-> LimitOf(search_request)])
    IN SelectSeq(results, ApplyFilters)

\* SearchService.search, lines 24-52
SearchCatalogue(cat, scorers, search_request) ==
    ApplyScorers(FilteredResults(cat, search_request), scorers)

\* no keyword argument
NoKeywords == [k \in {} |-> 0]

IdleSearch == [pc |-> "idle", cat |-> 1, request |-> NoKeywords, kwargs |-> NoKeywords,
               scorers |-> <<>>, filtered |-> <<>>, results |-> <<>>]

\* search_with_timeout before it is called: the caller, the asyncio future
\* it waits for, the work item of the executor and what the caller got
IdleTimed == [pc |-> "idle", request |-> [guests |-> 2], timeout |-> "positive",
              future |-> "pending", work |-> "none", result |-> <<>>,
              returned |-> "no", value |-> <<>>]

\* a lazy_search_results generator nobody has made yet
IdleGen == [pc |-> "idle", cat |-> 1, filters |-> NoKeywords, kwargs |-> NoKeywords,
            examined |-> 0, count |-> 0, results |-> <<>>]

LibInit ==
    /\ search = IdleSearch
    /\ gen = IdleGen
    /\ timed = IdleTimed
    /\ chain = IdleChain
    /\ checked = IdleChecked
    /\ piped = IdlePiped
    /\ registered = <<>>

\* a caller drains lazy_search_results
LazySearch ==
    /\ search.pc = "lazy"
    /\ search' = [search EXCEPT
                    !.pc = "listed",
                    !.results = LazySearchList(Catalogues[search.cat], search.request,
                                               search.kwargs)]
    /\ UNCHANGED <<busVars, cacheVars, svcVars>>
    /\ UNCHANGED <<gen, timed, chain, checked, piped, registered>>

\* a caller calls SearchService.search
SearchCall ==
    /\ search.pc = "search"
    /\ search' = [search EXCEPT
                    !.pc = "sorted",
                    !.filtered = FilteredResults(Catalogues[search.cat], search.request),
                    !.results = SearchCatalogue(Catalogues[search.cat], search.scorers,
                                                search.request)]
    /\ UNCHANGED <<busVars, cacheVars, svcVars>>
    /\ UNCHANGED <<gen, timed, chain, checked, piped, registered>>

\* lazy_offers asked for its next offer after it has examined that many
\* candidates, lines 52-69: it looks up price and availability and evaluates
\* the predicate for one candidate after the other up to the first that
\* passes (its position), or to the end of the walk (0)
NextMatch(cat, filters, examined) ==
    LET all == Candidates(cat)
        later == {i \in (examined + 1)..Len(all) : Matches(filters, all[i])}
    IN IF later = {} THEN 0 ELSE Min(later)

\* next() on the generator of lazy_search_results, lines 112-125: after a
\* yield it resumes with count += 1, then the for loop takes the next offer
\* and only then compares count with the limit
NextResult ==
    /\ gen.pc \in {"created", "suspended"}
    /\ LET cat == Catalogues[gen.cat]
           count == IF gen.pc = "suspended" THEN gen.count + 1 ELSE gen.count
           found == NextMatch(cat, gen.filters, gen.examined)
       IN IF found = 0
          THEN gen' = [gen EXCEPT !.pc = "finished", !.count = count,
                                  !.examined = Len(Candidates(cat))]
          ELSE IF LimitReached(gen.kwargs, count)
          THEN gen' = [gen EXCEPT !.pc = "finished", !.count = count, !.examined = found]
          ELSE gen' = [gen EXCEPT !.pc = "suspended", !.count = count, !.examined = found,
                                  !.results = Append(@, Offer(Candidates(cat)[found]))]
    /\ UNCHANGED <<busVars, cacheVars, svcVars>>
    /\ UNCHANGED <<search, timed, chain, checked, piped, registered>>

\* the consumer stops: it asks for no further element
StopConsuming ==
    /\ gen.pc = "suspended"
    /\ gen' = [gen EXCEPT !.pc = "closed"]
    /\ UNCHANGED <<busVars, cacheVars, svcVars>>
    /\ UNCHANGED <<search, timed, chain, checked, piped, registered>>

\* a request as search_predicate reads it when its city is a str
Plain(request) ==
    [k \in DOMAIN request |-> IF k = "city" THEN request.city[2] ELSE request[k]]

\* SearchService.search over the catalogue of the services; a city that
\* is a number has no lower(), which the first candidate examined shows
Search(request) ==
    IF "city" \in DOMAIN request /\ request.city[1] = "int"
    THEN Raised("'int' object has no attribute 'lower'")
    ELSE Returned(SearchCatalogue(SeedData, DefaultScorers, Plain(request)))

\* ------------------------------------------------------ search with timeout
\* search_with_timeout is called, lines 452-459: run_in_executor queues the
\* search for a thread of the default executor and wait_for waits for its
\* future; with a timeout that is not positive wait_for cancels the future
\* at once, and the work item with it unless a thread has taken it
SearchWithTimeout(request, timeout) ==
    /\ timed.pc = "idle"
    /\ IF timeout = "positive"
       THEN timed' = [timed EXCEPT !.pc = "waiting", !.request = request,
                                   !.timeout = timeout, !.work = "queued"]
       ELSE \E work \in {"cancelled", "running"} :
               timed' = [timed EXCEPT !.pc = "expired", !.request = request,
                                      !.timeout = timeout, !.future = "cancelled",
                                      !.work = work]
    /\ UNCHANGED <<busVars, cacheVars, svcVars>>
    /\ UNCHANGED <<search, gen, chain, checked, piped, registered>>

\* a thread of the executor takes the work item and calls search
WorkerStarts ==
    /\ timed.work = "queued"
    /\ timed' = [timed EXCEPT !.work = "running"]
    /\ UNCHANGED <<busVars, cacheVars, svcVars>>
    /\ UNCHANGED <<search, gen, chain, checked, piped, registered>>

\* search returns or raises in its thread
WorkerFinishes ==
    /\ timed.work = "running"
    /\ LET found == Search(timed.request)
       IN timed' = [timed EXCEPT !.work = IF found.raised THEN "faulted" ELSE "finished",
                                 !.result = IF found.raised THEN <<>> ELSE found.value]
    /\ UNCHANGED <<busVars, cacheVars, svcVars>>
    /\ UNCHANGED <<search, gen, chain, checked, piped, registered>>

\* the event loop copies the outcome of the thread to the future, unless
\* the future was cancelled
Deliver ==
    /\ timed.work \in {"finished", "faulted"}
    /\ timed' = [timed EXCEPT
                   !.work = "delivered",
                   !.future = IF @ # "pending" THEN @
                              ELSE IF timed.work = "faulted" THEN "exception"
                              ELSE "result"]
    /\ UNCHANGED <<busVars, cacheVars, svcVars>>
    /\ UNCHANGED <<search, gen, chain, checked, piped, registered>>

\* the timeout of wait_for expires
TimerFires ==
    /\ timed.pc = "waiting"
    /\ timed' = [timed EXCEPT !.pc = "expired"]
    /\ UNCHANGED <<busVars, cacheVars, svcVars>>
    /\ UNCHANGED <<search, gen, chain, checked, piped, registered>>

\* the caller goes on: with a future that is done it gets its result or
\* exception; after the timeout wait_for cancels a pending future, which
\* cancels the work item if no thread has taken it, and line 460 returns
\* None
WaitForReturns ==
    /\ \/ timed.pc = "waiting" /\ timed.future # "pending"
       \/ timed.pc = "expired"
    /\ timed' = [timed EXCEPT
                   !.pc = "done",
                   !.future = IF @ = "pending" THEN "cancelled" ELSE @,
                   !.work = IF timed.future = "pending" /\ @ = "queued"
                            THEN "cancelled" ELSE @,
                   !.returned = CASE timed.future = "result" -> "value"
                                  [] timed.future = "exception" -> "raised"
                                  [] OTHER -> "None",
                   !.value = IF timed.future = "result" THEN timed.result ELSE <<>>]
    /\ UNCHANGED <<busVars, cacheVars, svcVars>>
    /\ UNCHANGED <<search, gen, chain, checked, piped, registered>>

\* ----------------------------------------------------------- quote batch
\* the keyword arguments of one quote; the defaults are those of the workflow
QuoteItem(hotel_id, room_type_id, rate_id, checkin, checkout, guests) ==
    [hotel_id |-> hotel_id, room_type_id |-> room_type_id, rate_id |-> rate_id,
     checkin |-> checkin, checkout |-> checkout, guests |-> guests]

\* six arguments with valid dates
ValidItems ==
    {QuoteItem("h1", "room_1", "rate_1", "2024-01-01", "2024-01-03", 2),
     QuoteItem("h2", "room_2", "rate_2", "2024-01-15", "2024-01-18", 1)}

\* the empty dict
NoArguments == [k \in {} |-> PyNone]

\* items a caller may put into a batch: valid ones, a malformed date, a
\* missing argument, no argument at all
BatchItems ==
    ValidItems \cup
    {QuoteItem("h1", "room_1", "rate_1", "2024-01-01", "03/01/2024", 2),
     [hotel_id |-> "h1", room_type_id |-> "room_1"],
     NoArguments}

\* calculate_single_quote, lines 476-482: run_in_executor(executor, func,
\* *args) takes no keyword arguments, so **item raises TypeError unless the
\* item is empty, and then calculate_quote is called without arguments
CalculateSingleQuote(item) ==
    IF DOMAIN item # {}
    THEN Raised("BaseEventLoop.run_in_executor() got an unexpected keyword argument 'hotel_id'")
    ELSE Raised("QuoteService.calculate_quote() missing 6 required positional arguments")

Pending == [pending |-> TRUE]

IsPending(result) == "pending" \in DOMAIN result

AllFinished(results) == \A i \in DOMAIN results : ~IsPending(results[i])

\* the results that are no exception, in task order
Successful(results) ==
    LET IsValue(r) == ~r.raised
        values == SelectSeq(results, IsValue)
    IN [j \in 1..Len(values) |-> values[j].value]

\* the failures, the newest first
FailedNewestFirst(items, results) ==
    LET pairs == [i \in 1..Len(results) |-> [item |-> items[i], result |-> results[i]]]
        IsFault(p) == p.result.raised
        faulty == SelectSeq(pairs, IsFault)
    IN [j \in 1..Len(faulty) |->
           [item |-> faulty[Len(faulty) + 1 - j].item,
            error |-> faulty[Len(faulty) + 1 - j].result.error]]

\* lines 491-499: {'item': items[i], 'error': str(result)} for every result
\* that is an exception, in task order
Failed(items, results) ==
    LET pairs == [i \in 1..Len(results) |-> [item |-> items[i], result |-> results[i]]]
        IsFault(p) == p.result.raised
        faulty == SelectSeq(pairs, IsFault)
    IN [j \in 1..Len(faulty) |->
           [item |-> faulty[j].item, error |-> faulty[j].result.error]]

IdleBatch == [pc |-> "idle", items |-> <<>>, results |-> <<>>, out |-> [total_count |-> -1]]

\* quote_batch has created one task per item
StartedBatch(items) ==
    [pc |-> "running", items |-> items, results |-> [i \in 1..Len(items) |-> Pending],
     out |-> [total_count |-> -1]]

\* quote_batch(items) is called, lines 470-485
QuoteBatch(items) ==
    /\ batch.pc = "idle"
    /\ batch' = StartedBatch(items)
    /\ UNCHANGED <<booking, flow, par>>
    /\ UNCHANGED <<busVars, cacheVars, libVars>>

\* one of the gathered tasks runs to its end
QuoteTask(i) ==
    /\ batch.pc = "running"
    /\ i \in DOMAIN batch.results
    /\ IsPending(batch.results[i])
    /\ batch' = [batch EXCEPT !.results[i] = CalculateSingleQuote(batch.items[i])]
    /\ UNCHANGED <<booking, flow, par>>
    /\ UNCHANGED <<busVars, cacheVars, libVars>>

\* gather has every result: lines 487-507
QuoteBatchReturn ==
    /\ batch.pc = "running"
    /\ AllFinished(batch.results)
    /\ LET successful == Successful(batch.results)
           failed == Failed(batch.items, batch.results)
       IN batch' = [batch EXCEPT
                      !.pc = "done",
                      !.out = [successful |-> successful, failed |-> failed,
                               total_count |-> Len(batch.items),
                               success_count |-> Len(successful),
                               failure_count |-> Len(failed)]]
    /\ UNCHANGED <<booking, flow, par>>
    /\ UNCHANGED <<busVars, cacheVars, libVars>>

\* ------------------------------------------------------ parallel search
IdlePar == [pc |-> "idle", requests |-> <<>>, results |-> <<>>, out |-> <<>>,
            report |-> [total_searches |-> -1]]

\* parallel_search_workflow(search_requests) calls search_parallel, which
\* creates one task per request, lines 426-436 and 670-673
ParallelSearchWorkflow(search_requests) ==
    /\ par.pc = "idle"
    /\ par' = [par EXCEPT !.pc = "running", !.requests = search_requests,
                          !.results = [i \in 1..Len(search_requests) |-> Pending]]
    /\ UNCHANGED <<booking, batch, flow>>
    /\ UNCHANGED <<busVars, cacheVars, libVars>>

\* the search of one request ends in its worker thread
SearchTask(i) ==
    /\ par.pc = "running"
    /\ i \in DOMAIN par.results
    /\ IsPending(par.results[i])
    /\ par' = [par EXCEPT !.results[i] = Search(par.requests[i])]
    /\ UNCHANGED <<booking, batch, flow>>
    /\ UNCHANGED <<busVars, cacheVars, libVars>>

\* [r for r in results if not isinstance(r, Exception)], line 440
WithoutExceptions(results) == Successful(results)

\* the dict written without "if hotel_id not in unique_hotels": a later
\* result of a hotel takes the place of the first
RECURSIVE UniqueHotelsOverwritten(_, _)
UniqueHotelsOverwritten(all_results, seen) ==
    IF all_results = <<>> THEN <<>>
    ELSE LET hotel_id == Head(all_results).hotel.id
             same == {i \in DOMAIN all_results : all_results[i].hotel.id = hotel_id}
         IN IF hotel_id \in seen
            THEN UniqueHotelsOverwritten(Tail(all_results), seen)
            ELSE <<all_results[CHOOSE i \in same : \A j \in same : j <= i]>>
                    \o UniqueHotelsOverwritten(Tail(all_results), seen \cup {hotel_id})

\* list(unique_hotels.values()), lines 680-685 and 692: a dict keeps its
\* keys in the order of their first insertion, and a hotel id that is
\* already a key keeps its result
RECURSIVE UniqueHotels(_, _)
UniqueHotels(all_results, seen) ==
    IF all_results = <<>> THEN <<>>
    ELSE LET hotel_id == Head(all_results).hotel.id
         IN IF hotel_id \in seen
            THEN UniqueHotels(Tail(all_results), seen)
            ELSE <<Head(all_results)>>
                    \o UniqueHotels(Tail(all_results), seen \cup {hotel_id})

\* the dict returned by parallel_search_workflow, lines 675-693
SearchReport(search_requests, search_results) ==
    LET all_results == Flatten(search_results)
        unique_hotels == UniqueHotels(all_results, {})
    IN [total_searches |-> Len(search_requests),
        total_results |-> Len(all_results),
        unique_hotels |-> Len(unique_hotels),
        results_per_search |-> [i \in 1..Len(search_results) |-> Len(search_results[i])],
        unique_results |-> unique_hotels]

\* gather has every result: search_parallel returns, the workflow reports
ParallelSearchReturn ==
    /\ par.pc = "running"
    /\ AllFinished(par.results)
    /\ LET search_results == WithoutExceptions(par.results)
       IN par' = [par EXCEPT !.pc = "done", !.out = search_results,
                             !.report = SearchReport(par.requests, search_results)]
    /\ UNCHANGED <<booking, batch, flow>>
    /\ UNCHANGED <<busVars, cacheVars, libVars>>

\* ------------------------------------------------- end-to-end workflow
\* search_results[:3]
TopN == 3
TopResults(search_results) ==
    SubSeq(search_results, 1, IF Len(search_results) < TopN THEN Len(search_results) ELSE TopN)

\* search_request.get(key, default)
GetOr(request, key, default) == IF key \in DOMAIN request THEN request[key] ELSE default

\* one of the quote_items of lines 572-584
WorkflowItem(result, request) ==
    [hotel_id |-> result.hotel.id, room_type_id |-> result.room_type.id,
     rate_id |-> result.rate.id,
     checkin |-> GetOr(request, "checkin", "2024-01-15"),
     checkout |-> GetOr(request, "checkout", "2024-01-18"),
     guests |-> GetOr(request, "guests", 2),
     nights |-> 3, base_price_per_night |-> result.price_per_night]

IdleFlow == [pc |-> "idle", request |-> [guests |-> 2], guest |-> [id |-> ""],
             search_results |-> <<>>, quotes |-> <<>>, cart |-> <<>>, out |-> [step |-> "none"]]

SvcInit ==
    /\ booking = NoBooking
    /\ batch = IdleBatch
    /\ flow = IdleFlow
    /\ par = IdlePar

\* end_to_end_workflow is called: the search of lines 559-568, which is not
\* guarded, then the quote items and the call of quote_batch
EndToEndWorkflow(search_request, guest_data) ==
    /\ flow.pc = "idle"
    /\ batch.pc = "idle"
    /\ LET found == Search(search_request)
           begun == [flow EXCEPT !.request = search_request, !.guest = guest_data]
       IN IF found.raised
          THEN /\ flow' = [begun EXCEPT !.pc = "raised", !.out = [raised |-> found.error]]
               /\ UNCHANGED batch
          ELSE IF found.value = <<>>
          THEN /\ flow' = [begun EXCEPT
                             !.pc = "done",
                             !.out = [success |-> FALSE,
                                      error |-> "No hotels found matching your criteria",
                                      step |-> "search"]]
               /\ UNCHANGED batch
          ELSE LET top_results == TopResults(found.value)
               IN /\ flow' = [begun EXCEPT !.pc = "quote", !.search_results = found.value]
                  /\ batch' = StartedBatch([i \in 1..Len(top_results) |->
                                              WorkflowItem(top_results[i], search_request)])
    /\ UNCHANGED <<booking, par>>
    /\ UNCHANGED <<busVars, cacheVars, libVars>>

\* quote_batch has returned: lines 587-594
AfterQuotes ==
    /\ flow.pc = "quote"
    /\ batch.pc = "done"
    /\ IF batch.out.successful = <<>>
       THEN flow' = [flow EXCEPT
                       !.pc = "done",
                       !.out = [success |-> FALSE, error |-> "Failed to calculate quotes",
                                step |-> "quotation",
                                failed_quotes |-> batch.out.failed]]
       ELSE flow' = [flow EXCEPT !.pc = "cart", !.quotes = batch.out.successful]
    /\ UNCHANGED <<booking, batch, par>>
    /\ UNCHANGED <<busVars, cacheVars, libVars>>

\* zip(top_results, quote_result['successful']) has this many pairs
PairCount ==
    LET top == Len(TopResults(flow.search_results))
    IN IF Len(flow.quotes) < top THEN Len(flow.quotes) ELSE top

\* lines 598-618: the next cart item is created and its HOLD is published
HoldNext ==
    /\ flow.pc = "cart"
    /\ Len(flow.cart) < PairCount
    /\ LET result == TopResults(flow.search_results)[Len(flow.cart) + 1]
           cart_item == [id |-> <<"cart_1", "cart_2", "cart_3">>[Len(flow.cart) + 1],
                         hotel_id |-> result.hotel.id,
                         room_type_id |-> result.room_type.id, rate_id |-> result.rate.id,
                         checkin |-> GetOr(flow.request, "checkin", "2024-01-15"),
                         checkout |-> GetOr(flow.request, "checkout", "2024-01-18"),
                         guests |-> GetOr(flow.request, "guests", 2)]
       IN /\ PublishEvent(1, "HOLD",
                 [cart_item_id |-> cart_item.id, hotel_id |-> cart_item.hotel_id,
                  room_type_id |-> cart_item.room_type_id, checkin |-> cart_item.checkin,
                  checkout |-> cart_item.checkout, guests |-> cart_item.guests])
          /\ flow' = [flow EXCEPT !.pc = "hold", !.cart = Append(@, cart_item)]
    /\ UNCHANGED <<booking, batch, par>>
    /\ UNCHANGED <<cacheVars, libVars>>

\* lines 621-658: create_booking; a Right publishes BOOKED, a Left returns
\* booking_result.get_or_else('Unknown error') as the error
BookingStep ==
    /\ flow.pc = "cart"
    /\ Len(flow.cart) = PairCount
    /\ LET made == CreateBookingResult(flow.guest, flow.cart)
       IN /\ booking' = made
          /\ IF made.result.is_right
             THEN LET b == GetOrElse(made.result, PyNone)
                  IN /\ PublishEvent(1, "BOOKED",
                            [booking_id |-> b.id, guest_id |-> b.guest_id,
                             total |-> b.total, items_count |-> Len(b.items),
                             status |-> b.status])
                     /\ flow' = [flow EXCEPT !.pc = "booked"]
             ELSE /\ flow' = [flow EXCEPT
                                !.pc = "done",
                                !.out = [success |-> FALSE,
                                         error |-> GetOrElse(made.result, "Unknown error"),
                                         step |-> "booking",
                                         search_results_count |-> Len(flow.search_results),
                                         quotes_calculated |-> Len(flow.quotes)]]
                  /\ UNCHANGED busVars
    /\ UNCHANGED <<batch, par>>
    /\ UNCHANGED <<cacheVars, libVars>>

\* the awaited publish has returned: the loop goes on after a HOLD, the
\* workflow returns its success after BOOKED (lines 642-650)
PublishReturned ==
    /\ flow.pc \in {"hold", "booked"}
    /\ tasks[1].pc = "idle"
    /\ IF flow.pc = "hold"
       THEN flow' = [flow EXCEPT !.pc = "cart"]
       ELSE LET b == GetOrElse(booking.result, PyNone)
            IN flow' = [flow EXCEPT
                          !.pc = "done",
                          !.out = [success |-> TRUE, booking_id |-> b.id, total |-> b.total,
                                   status |-> b.status,
                                   search_results_count |-> Len(flow.search_results),
                                   items_booked |-> Len(b.items),
                                   quotes_calculated |-> Len(flow.quotes)]]
    /\ UNCHANGED <<booking, batch, par>>
    /\ UNCHANGED <<busVars, cacheVars, libVars>>

\* create_booking called by a client of the booking service
CreateBooking(guest, cart_items) ==
    /\ booking' = CreateBookingResult(guest, cart_items)
    /\ UNCHANGED <<batch, flow, par>>
    /\ UNCHANGED <<busVars, cacheVars, libVars>>

\* ------------------------------------------------------ pipe, calculate_quote
\* a caller calls pipe(value, *functions)
PipeCall ==
    /\ piped.pc = "ready"
    /\ piped.kind = "pipe"
    /\ piped' = [piped EXCEPT !.pc = "done",
                              !.result = <<Pipe(piped.value[1], piped.functions)>>]
    /\ UNCHANGED <<busVars, cacheVars, svcVars>>
    /\ UNCHANGED <<search, gen, timed, chain, checked, registered>>

\* PipeLine.map, compose.py lines 49-52
PipeLineMap(func) ==
    /\ piped.pc = "ready"
    /\ piped.kind = "PipeLine"
    /\ Len(piped.functions) < MaxPipe
    /\ piped' = [piped EXCEPT !.functions = Append(@, func)]
    /\ UNCHANGED <<busVars, cacheVars, svcVars>>
    /\ UNCHANGED <<search, gen, timed, chain, checked, registered>>

\* PipeLine.run and _execute, compose.py lines 61-69
PipeLineRun ==
    /\ piped.pc = "ready"
    /\ piped.kind = "PipeLine"
    /\ piped' = IF piped.value = <<>>
                THEN [piped EXCEPT !.pc = "raised"]
                ELSE [piped EXCEPT !.pc = "done",
                         !.result = <<Pipe(piped.value[1], piped.functions)>>]
    /\ UNCHANGED <<busVars, cacheVars, svcVars>>
    /\ UNCHANGED <<search, gen, timed, chain, checked, registered>>

\* the calculators of create_quote_service, service.py lines 288-343; amounts
\* that may have a fraction (taxes, totals) are held in hundredths
CalculateBasePrice(quote) ==
    LET base_price == GetOr(quote, "nights", 1) * GetOr(quote, "base_price_per_night", 100)
                         * GetOr(quote, "guests", 1)
    IN  [k \in DOMAIN quote \cup {"base_price"} |->
            IF k = "base_price" THEN base_price ELSE quote[k]]

CalculateTaxes(quote) ==
    LET base_price == GetOr(quote, "base_price", 0)
        occupancy_tax == base_price * 10
        city_tax == base_price * 5
        total_tax == occupancy_tax + city_tax
        total_with_tax == base_price * 100 + total_tax
    IN  [k \in DOMAIN quote \cup {"occupancy_tax", "city_tax", "total_tax", "total_with_tax"} |->
            CASE k = "occupancy_tax" -> occupancy_tax
              [] k = "city_tax" -> city_tax
              [] k = "total_tax" -> total_tax
              [] k = "total_with_tax" -> total_with_tax
              [] OTHER -> quote[k]]

\* round(total, 2) of a total held in 1/10000
Round2(total) == (total + 50) \div 100

\* early: (checkin - datetime.now()).days > 30
ApplyDiscounts(quote, early) ==
    LET total == GetOr(quote, "total_with_tax", 0) * 100
        early_booking == "checkin" \in DOMAIN quote /\ early
        after_early == IF early_booking THEN (total * 95) \div 100 ELSE total
        long_stay == GetOr(quote, "nights", 1) > 7
        after_long == IF long_stay THEN (after_early * 90) \div 100 ELSE after_early
        added == {"final_total", "currency"}
                    \cup (IF early_booking THEN {"early_booking_discount"} ELSE {})
                    \cup (IF long_stay THEN {"long_stay_discount"} ELSE {})
    IN  [k \in DOMAIN quote \cup added |->
            CASE k = "final_total" -> Round2(after_long)
              [] k = "currency" -> "USD"
              [] k = "early_booking_discount" -> 5
              [] k = "long_stay_discount" -> 10
              [] OTHER -> quote[k]]

Calculators == <<"price_calculator", "tax_calculator", "discount_calculator">>

ApplyCalculator(name, quote, early) ==
    CASE name = "price_calculator" -> CalculateBasePrice(quote)
      [] name = "tax_calculator" -> CalculateTaxes(quote)
      [] OTHER -> ApplyDiscounts(quote, early)

\* reduce(lambda acc, f: f(acc), order, arg) for the calculators
RECURSIVE ReduceCalculators(_, _, _)
ReduceCalculators(order, acc, early) ==
    IF order = <<>> THEN acc
    ELSE ReduceCalculators(Tail(order), ApplyCalculator(Head(order), acc, early), early)

\* calculate_quote, service.py lines 69-91: quote_offer through its cache,
\* then pipe(base_quote, price, tax, discount); strptime's ValueError leaves
\* the call
CalculateQuote(args, early) ==
    /\ piped.pc = "ready"
    /\ piped.kind = "calculate_quote"
    /\ \A c \in Callers : callers[c].pc = "idle"
    /\ clock' = clock + 1
    /\ LET r == Lookup(cache, hits, misses, args)
           base_quote == IF r.hit THEN cache[IndexOfKey(cache, args)].result
                         ELSE Compute(args, clock')
       IN  /\ hits' = r.hits
           /\ misses' = r.misses
           /\ cache' = IF r.hit \/ ~base_quote.ok THEN r.cache
                       ELSE Store(r.cache, args, base_quote)
           /\ lastAccess' = IF base_quote.ok THEN Accessed(lastAccess, cache', args, clock')
                            ELSE lastAccess
           /\ piped' = IF ~base_quote.ok
                       THEN [piped EXCEPT !.pc = "raised"]
                       ELSE [piped EXCEPT
                                !.pc = "done",
                                !.trace = PipeOrder(Calculators),
                                !.result = <<ReduceCalculators(PipeOrder(Calculators),
                                                               base_quote, early)>>]
    /\ calls' = calls + 1
    /\ UNCHANGED callers
    /\ UNCHANGED <<busVars, svcVars>>
    /\ UNCHANGED <<search, gen, timed, chain, checked, registered>>

\* ------------------------------------------------------------ specification
Init == BusInit /\ CacheInit /\ SvcInit /\ LibInit

\* events published while subscriptions come and go
NotifyEvents == {<<"HOLD", [id |-> "h1"]>>, <<"BOOKED", [hold_id |-> "h1"]>>}
NotifyNames == {"HOLD", "BOOKED"}

\* every event a caller may publish
AllEvents == {<<name, payload>> : name \in AllNames, payload \in UNION {Payloads(n) : n \in AllNames}}
                \cap UNION {{<<n, p>> : p \in Payloads(n)} : n \in AllNames}

\* the bus used from one coroutine: subscriptions, publishes, notification
Next ==
    \/ \E et \in NotifyNames, cb \in CallbackKinds, fp \in FilterKinds : Subscribe(et, cb, fp)
    \/ \E id \in 1..MaxSubs : Unsubscribe(id)
    \/ \E ev \in NotifyEvents : Len(event_history) < MaxNotified /\ Publish(1, ev[1], ev[2])
    \/ UpdateState(1)
    \/ Notify(1)
    \/ Resume(1)

Spec == Init /\ [][Next]_vars

\* the bus as an event log with its derived state and snapshots
NextState ==
    \/ \E ev \in AllEvents : Publish(1, ev[1], ev[2])
    \/ UpdateState(1)
    \/ Notify(1)
    \/ GetState

SpecState == Init /\ [][NextState]_vars

\* concurrently running publish calls on one event loop
ConcEvents == {<<"HOLD", [id |-> "h1"]>>, <<"HOLD", [id |-> "h2"]>>,
               <<"BOOKED", [hold_id |-> "h1"]>>}

NextConc ==
    \/ \E cb \in {"ok", "suspend"} : Subscribe("HOLD", cb, PyNone)
    \/ \E t \in Tasks : \E ev \in ConcEvents : Publish(t, ev[1], ev[2])
    \/ \E t \in Tasks : UpdateState(t)
    \/ \E t \in Tasks : Notify(t)
    \/ \E t \in Tasks : Resume(t)

SpecConc == Init /\ [][NextConc]_vars

\* the quote cache used by one caller, from a cold or a warmed-up cache
InitCache == BusInit /\ SvcInit /\ LibInit /\ callers = [c \in Callers |-> IdleCaller] /\ (ColdCache \/ WarmCache)

QuoteInputs(now) ==
    IF now < Warm
    THEN {Args(h, d) : h \in 1..2, d \in {Valid, Invalid}}
    ELSE {Args(h, d) : h \in HotHotels, d \in {Valid}} \cup {Args(1, Invalid)}

NextCache ==
    \/ \E c \in Callers : \E key \in QuoteInputs(clock) : Call(c, key)
    \/ \E c \in Callers : Return(c)
    \/ CacheClear

SpecCache == InitCache /\ [][NextCache]_vars

\* threads that call quote_offer at the same time
Racers == 1..NumCallers

\* the argument tuples they quote: new to the cache, and one bad date
RaceKeys(now) ==
    IF now < Warm
    THEN {Args(h, Valid) : h \in 1..2} \cup {Args(1, Invalid)}
    ELSE {Args(h, Valid) : h \in Warm + 1 .. Warm + 3}

InitRace == BusInit /\ SvcInit /\ LibInit /\ callers = [c \in Racers |-> IdleCaller] /\ (ColdCache \/ WarmCache)

\* calls started since the race began; every racer calls once, one again
RaceCalls == IF clock < Warm THEN clock ELSE clock - Warm

NextRace ==
    \/ \E c \in Racers : \E key \in RaceKeys(clock) :
          RaceCalls <= NumCallers /\ Call(c, key)
    \/ \E c \in Racers : Return(c)

SpecRace == InitRace /\ [][NextRace]_vars

\* stays a caller may ask a quote for, the last one with a malformed date
StayDates == {Valid, <<"2024-01-15", "2024-01-18">>, <<"2024-01-03", "2024-02-01">>,
              Invalid}

\* argument tuples that differ in every one of the six arguments
QuoteArgs ==
    {<<h, r, p, d[1], d[2], g>> :
        h \in 1..2, r \in {"room_1", "room_2"}, p \in {"rate_1", "rate_2"},
        d \in StayDates, g \in 1..2}

\* quote_offer as a function: a caller quotes one argument tuple, repeatedly
InitQuote ==
    /\ BusInit
    /\ SvcInit
    /\ LibInit
    /\ ColdCache
    /\ \E key \in QuoteArgs : callers = [c \in Callers |-> [IdleCaller EXCEPT !.key = key]]

NextQuote ==
    \/ \E c \in Callers : Call(c, callers[c].key)
    \/ \E c \in Callers : Return(c)

SpecQuote == InitQuote /\ [][NextQuote]_vars

\* the booking service called with carts of up to MaxCart items
NextBooking ==
    \E guest \in Guests, cart_items \in SeqsUpTo(CartItems, MaxCart) :
        CreateBooking(guest, cart_items)

SpecBooking == Init /\ [][NextBooking]_vars

\* quote_batch called with up to MaxBatch items
NextBatch ==
    \/ \E items \in SeqsUpTo(BatchItems, MaxBatch) : QuoteBatch(items)
    \/ \E i \in 1..MaxBatch : QuoteTask(i)
    \/ QuoteBatchReturn

SpecBatch == Init /\ [][NextBatch]_vars

\* the parallel search of up to MaxRequests requests
NextSearch ==
    \/ \E search_requests \in SeqsUpTo(Requests, MaxRequests) :
          ParallelSearchWorkflow(search_requests)
    \/ \E i \in 1..MaxRequests : SearchTask(i)
    \/ ParallelSearchReturn

SpecSearch == Init /\ [][NextSearch]_vars

\* the workflow from its call to the return of quote_batch
NextFlow ==
    \/ \E search_request \in Requests, guest_data \in Guests :
          EndToEndWorkflow(search_request, guest_data)
    \/ \E i \in 1..TopN : QuoteTask(i)
    \/ QuoteBatchReturn
    \/ AfterQuotes

SpecFlow == Init /\ [][NextFlow]_vars

\* the handlers registered on the global event_bus, frp.py lines 154-160
GlobalSubscribers ==
    [SEARCH |-> <<Subscription(1, "SEARCH", "ok", PyNone)>>,
     HOLD |-> <<Subscription(2, "HOLD", "ok", PyNone)>>,
     BOOKED |-> <<Subscription(3, "BOOKED", "ok", PyNone),
                  Subscription(6, "BOOKED", "ok", PyNone)>>,
     CANCELLED |-> <<Subscription(4, "CANCELLED", "ok", PyNone),
                     Subscription(7, "CANCELLED", "ok", PyNone)>>,
     PRICE_CHANGED |-> <<Subscription(5, "PRICE_CHANGED", "ok", PyNone)>>]

\* the quote that quote_offer gives for a quote item
QuoteOf(item) ==
    Compute(<<item.hotel_id, item.room_type_id, item.rate_id, item.checkin,
              item.checkout, item.guests>>, 0)

\* the workflow at its cart stage (line 596), with a quote for the first n
\* of the top results
InitCart ==
    /\ subscribers = GlobalSubscribers
    /\ event_history = <<>>
    /\ state = [active_holds |-> 1, recent_bookings |-> 2, price_changes |-> 3,
                search_queries |-> 4, cancellations |-> 5]
    /\ heap = [a \in Addrs |-> <<>>]
    /\ tasks = [t \in Tasks |-> IdleTask]
    /\ ret = NoReturn
    /\ issued = 7
    /\ removed = {}
    /\ snap = <<>>
    /\ snapVal = <<>>
    /\ CacheInit
    /\ booking = NoBooking
    /\ batch = IdleBatch
    /\ par = IdlePar
    /\ LibInit
    /\ \E search_request \in Requests, guest_data \in Guests :
          LET found == Search(search_request)
          IN /\ ~found.raised
             /\ found.value # <<>>
             /\ \E n \in 1..Len(TopResults(found.value)) :
                   flow = [pc |-> "cart", request |-> search_request, guest |-> guest_data,
                           search_results |-> found.value,
                           quotes |-> [i \in 1..n |->
                                         QuoteOf(WorkflowItem(TopResults(found.value)[i],
                                                              search_request))],
                           cart |-> <<>>, out |-> [step |-> "none"]]

NextCart ==
    \/ HoldNext
    \/ UpdateState(1)
    \/ Notify(1)
    \/ PublishReturned
    \/ BookingStep

SpecCart == InitCart /\ [][NextCart]_vars

\* the requests of a search: any of the keys may be missing, and a value
\* may be one that Python takes for false
SearchKeys == {"city", "min_stars", "guests", "max_price", "features", "limit"}
FullRequests ==
    [city : {"PARIS", "Miami", ""}, min_stars : {0, 4}, guests : {0, 3},
     max_price : {0, 100}, features : {{}, {"wifi"}, {"wifi", "pool"}},
     limit : 0..MaxYield]
SearchRequests == {[k \in S |-> full[k]] : S \in SUBSET SearchKeys, full \in FullRequests}

\* the limit keyword of lazy_search_results: not passed, or a number
LimitKeywords == {NoKeywords} \cup {[limit |-> n] : n \in 0..MaxYield}

\* the scorers a SearchService may be made with
ScorerConfigs == SeqsUpTo({"price", "rating", "availability"}, 3)

InitCatalogue ==
    /\ BusInit
    /\ CacheInit
    /\ SvcInit
    /\ gen = IdleGen
    /\ timed = IdleTimed
    /\ chain = IdleChain
    /\ checked = IdleChecked
    /\ piped = IdlePiped
    /\ registered = <<>>
    /\ \/ \E c \in DOMAIN Catalogues, k \in LimitKeywords :
          \E f \in {r \in SearchRequests : "limit" \notin DOMAIN r} :
             search = [IdleSearch EXCEPT !.pc = "lazy", !.cat = c, !.request = f,
                                         !.kwargs = k]
       \/ \E c \in DOMAIN Catalogues, s \in ScorerConfigs :
          \E r \in {r \in SearchRequests : DOMAIN r \subseteq {"city", "guests", "limit"}} :
             search = [IdleSearch EXCEPT !.pc = "search", !.cat = c, !.request = r,
                                         !.scorers = s]

NextCatalogue == LazySearch \/ SearchCall

SpecCatalogue == InitCatalogue /\ [][NextCatalogue]_vars

\* the filters of the generators that are consumed step by step
GenFilters ==
    {NoKeywords, [city |-> "PARIS"], [city |-> "Miami"], [guests |-> 3],
     [max_price |-> 100], [min_stars |-> 4, features |-> {"wifi"}]}

InitGen ==
    /\ BusInit
    /\ CacheInit
    /\ SvcInit
    /\ search = IdleSearch
    /\ timed = IdleTimed
    /\ chain = IdleChain
    /\ checked = IdleChecked
    /\ piped = IdlePiped
    /\ registered = <<>>
    /\ \E c \in DOMAIN Catalogues, f \in GenFilters, k \in LimitKeywords :
          gen = [IdleGen EXCEPT !.pc = "created", !.cat = c, !.filters = f, !.kwargs = k]

NextGen == NextResult \/ StopConsuming

SpecGen == InitGen /\ [][NextGen]_vars

NextTimed ==
    \/ \E request \in Requests, timeout \in {"positive", "zero"} :
          SearchWithTimeout(request, timeout)
    \/ WorkerStarts
    \/ WorkerFinishes
    \/ Deliver
    \/ TimerFires
    \/ WaitForReturns

SpecTimed == Init /\ [][NextTimed]_vars

\* chains of map and bind from every Maybe and Either
InitChain ==
    /\ BusInit
    /\ CacheInit
    /\ SvcInit
    /\ search = IdleSearch
    /\ gen = IdleGen
    /\ timed = IdleTimed
    /\ \E m \in Maybes \cup Eithers : chain = [IdleChain EXCEPT !.start = m, !.m = m]
    /\ checked = IdleChecked
    /\ piped = IdlePiped
    /\ registered = <<>>

NextChain ==
    \/ \E func \in [Values -> Values] : ChainMap(func)
    \/ \E func \in [Values -> Maybes] : "is_just" \in DOMAIN chain.m /\ ChainBind(func)
    \/ \E func \in [Values -> Eithers] : "is_right" \in DOMAIN chain.m /\ ChainBind(func)

SpecChain == InitChain /\ [][NextChain]_vars

\* bookings of up to MaxCart items and the totals around their computed total
BookedItems ==
    {[room_type_id |-> r, checkin |-> w[1], checkout |-> w[2], guests |-> g] :
        r \in {"r1", "r2"}, w \in {<<1, 3>>, <<3, 4>>}, g \in {1, 5}}
Availabilities ==
    {<<>>,
     <<[room_type_id |-> "r1", date |-> 1, available |-> 1]>>,
     <<[room_type_id |-> "r2", date |-> 2, available |-> 0],
       [room_type_id |-> "r1", date |-> 3, available |-> 2],
       [room_type_id |-> "r2", date |-> 3, available |-> 1]>>}
Offsets == {-11, -10, 0, 10, 11}

InitChecked ==
    /\ BusInit
    /\ CacheInit
    /\ SvcInit
    /\ search = IdleSearch
    /\ gen = IdleGen
    /\ timed = IdleTimed
    /\ chain = IdleChain
    /\ piped = IdlePiped
    /\ registered = <<>>
    /\ \E items \in SeqsUpTo(BookedItems, MaxCart), d \in Offsets, a \in Availabilities :
          checked = [IdleChecked EXCEPT
                        !.pc = "ready",
                        !.booking = [items |-> items,
                                     total |-> CalculatedTotal(items) + d],
                        !.availability = a]

NextChecked == ValidateBookingCall

SpecChecked == InitChecked /\ [][NextChecked]_vars

\* functions on Values that do not commute: successor, constant, swap, minimum
PipeFunctions ==
    {[x \in Values |-> (x + 1) % 3], [x \in Values |-> 0],
     [x \in Values |-> (3 - x) % 3], [x \in Values |-> IF x > 1 THEN 1 ELSE x]}

\* pipe with up to MaxPipe functions, a PipeLine (with a value or None) and
\* a quote service with the calculators of create_quote_service
InitPipe ==
    /\ BusInit
    /\ CacheInit
    /\ SvcInit
    /\ search = IdleSearch
    /\ gen = IdleGen
    /\ timed = IdleTimed
    /\ chain = IdleChain
    /\ checked = IdleChecked
    /\ registered = <<>>
    /\ \/ \E value \in Values, functions \in SeqsUpTo(PipeFunctions, MaxPipe) :
             piped = [IdlePiped EXCEPT !.pc = "ready", !.value = <<value>>,
                                       !.functions = functions]
       \/ \E value \in {<<>>} \cup {<<v>> : v \in Values} :
             piped = [IdlePiped EXCEPT !.pc = "ready", !.kind = "PipeLine",
                                       !.value = value]
       \/ piped = [IdlePiped EXCEPT !.pc = "ready", !.kind = "calculate_quote"]

NextPipe ==
    \/ PipeCall
    \/ \E func \in PipeFunctions : PipeLineMap(func)
    \/ PipeLineRun
    \/ \E args \in QuoteArgs, early \in BOOLEAN : CalculateQuote(args, early)

SpecPipe == InitPipe /\ [][NextPipe]_vars

\* a bus with up to MaxSubs + 1 subscriptions for one event name, made in
\* this order, some with callbacks that call the bus; events are published
\* one after the other
ReentrantCallbacks == {"ok"} \cup ReentrantKinds
RECURSIVE Subscriptions(_)
Subscriptions(n) ==
    IF n = 0 THEN {<<>>}
    ELSE {Append(list, Subscription(n, "PING", cb, fp)) :
            list \in Subscriptions(n - 1), cb \in ReentrantCallbacks,
            fp \in {PyNone, "reject"}}

InitReentrant ==
    /\ CacheInit
    /\ SvcInit
    /\ LibInit
    /\ \E n \in 1..MaxSubs + 1 : \E list \in Subscriptions(n) :
          /\ subscribers = [name \in {"PING"} |-> list]
          /\ issued = n
    /\ event_history = <<>>
    /\ state = [active_holds |-> 1, recent_bookings |-> 2, price_changes |-> 3,
                search_queries |-> 4, cancellations |-> 5]
    /\ heap = [a \in Addrs |-> <<>>]
    /\ tasks = [t \in Tasks |-> IdleTask]
    /\ ret = NoReturn
    /\ removed = {}
    /\ snap = <<>>
    /\ snapVal = <<>>

NextReentrant ==
    \/ PublishRegistered(1, "PING", [note |-> "x"])
    \/ UpdateState(1)
    \/ ~CallsBus(1) /\ Notify(1)
    \/ NotifyCalling(1)

SpecReentrant == InitReentrant /\ [][NextReentrant]_vars

\* ------------------------------------------------------------------ claims
Last(seq) == seq[Len(seq)]
Front(seq) == SubSeq(seq, 1, Len(seq) - 1)
Range(seq) == {seq[i] : i \in DOMAIN seq}

Publishing(t) == tasks[t].pc \in {"reduce", "notify", "await"}

\* the list publish iterates for the task's event
ListFor(t) == IF tasks[t].event.name \in DOMAIN subscribers
              THEN subscribers[tasks[t].event.name] ELSE <<>>

\* ids of the subscriptions of a list whose filter is absent or accepts
Accepting(sub) == sub.filter_predicate \in {PyNone, "accept"}
MatchingIds(list) ==
    LET sel == SelectSeq(list, Accepting) IN [i \in DOMAIN sel |-> sel[i].id]

AllSubscriptions == UNION {Range(subscribers[n]) : n \in DOMAIN subscribers}

C1_Steps ==
    \A t \in Tasks :
        /\ tasks[t].pc = "reduce" =>
              /\ event_history # <<>> /\ Last(event_history) = tasks[t].event
              /\ Deref(state, heap) = Fold(Front(event_history))
        /\ tasks[t].pc \in {"notify", "await"} =>
              /\ tasks[t].event \in Range(event_history)
              /\ Deref(state, heap) = Fold(event_history)
              /\ tasks[t].notified = MatchingIds(SubSeq(ListFor(t), 1, tasks[t].idx))
              /\ \A i \in DOMAIN tasks[t].notified :
                    \E sub \in AllSubscriptions :
                        /\ sub.id = tasks[t].notified[i]
                        /\ sub.event_type = tasks[t].event.name

C1_Return ==
    \A t \in Tasks :
        (tasks[t].pc = "notify" /\ tasks'[t].pc = "idle") =>
            tasks[t].notified = MatchingIds(ListFor(t))

\* C1: publish appends the event to the history, then reduces it into the
\* derived state, then notifies; the callbacks run are exactly those of the
\* subscriptions of event.name whose filter is absent or accepts, in
\* subscription order, each once, and every callback sees its event in the
\* history and in the derived state.
C1_PublishOrder == []C1_Steps /\ [][C1_Return]_vars

C1_Witness ==
    /\ tasks[1].pc = "notify"
    /\ tasks[1].idx = 2
    /\ Len(ListFor(1)) = 2
    /\ Len(tasks[1].notified) = 1
    /\ ListFor(1)[1].filter_predicate = "reject"
    /\ tasks[1].event.name = "BOOKED"

C2_Step ==
    \A t \in Tasks :
        /\ tasks'[t].pc # "raised"
        /\ tasks'[t].faults > tasks[t].faults =>
              /\ tasks'[t].pc = "notify"
              /\ event_history' = event_history
              /\ Deref(state', heap') = Deref(state, heap)
        /\ (tasks[t].pc = "notify" /\ tasks'[t].pc = "idle" /\ tasks[t].faults > 0) =>
              /\ tasks[t].notified = MatchingIds(ListFor(t))
              /\ tasks[t].event \in Range(event_history')
              /\ Deref(state', heap') = Fold(event_history')

\* C2: a fault raised by a callback or by a filter during publish does not
\* make publish fail: the event stays in the history and in the derived
\* state and every matching subscriber later in the list is still notified.
C2_FaultIsolation == [][C2_Step]_vars

C2_Witness ==
    /\ tasks[1].pc = "notify"
    /\ tasks[1].faults = 1
    /\ tasks[1].idx = 2
    /\ Len(ListFor(1)) = 2
    /\ ListFor(1)[1].callback = "raise"
    /\ ListFor(1)[1].filter_predicate = PyNone
    /\ tasks[1].notified = <<ListFor(1)[1].id, ListFor(1)[2].id>>

\* the step in which task t applies the reducer to its event
Reduces(t) == tasks[t].pc = "reduce" /\ tasks'[t].pc # "reduce"

HasId(entry, h) == "id" \in DOMAIN entry /\ entry.id = h

\* the payload's keys and values are all in the entry
Carries(entry, payload) ==
    /\ DOMAIN payload \subseteq DOMAIN entry
    /\ \A k \in DOMAIN payload \ {"event_id", "timestamp"} : entry[k] = payload[k]

C3_Step ==
    \A t \in Tasks :
        (/\ Reduces(t)
         /\ tasks[t].event.name = "BOOKED"
         /\ "hold_id" \in DOMAIN tasks[t].event.payload) =>
            LET h == tasks[t].event.payload.hold_id
                before == heap[state.active_holds]
                after == heap'[state'.active_holds]
                Other(entry) == ~HasId(entry, h)
            IN /\ \A i \in DOMAIN after : ~HasId(after[i], h)
               /\ after = SelectSeq(before, Other)
               /\ \E i \in DOMAIN heap'[state'.recent_bookings] :
                     Carries(heap'[state'.recent_bookings][i], tasks[t].event.payload)

\* a HOLD of id h followed in the history by a reduced BOOKED naming h
Booked(i) ==
    /\ event_history[i].name = "HOLD"
    /\ "id" \in DOMAIN event_history[i].payload
    /\ \E j \in DOMAIN event_history :
          /\ j > i
          /\ event_history[j].name = "BOOKED"
          /\ "hold_id" \in DOMAIN event_history[j].payload
          /\ event_history[j].payload.hold_id = event_history[i].payload.id
          /\ \A t \in Tasks : ~(tasks[t].pc = "reduce" /\ tasks[t].event = event_history[j])

C3_State ==
    \A i \in DOMAIN event_history :
        Booked(i) =>
            \A k \in DOMAIN heap[state.active_holds] :
                heap[state.active_holds][k].event_id # event_history[i].id

\* C3: once a BOOKED event naming hold id h is published, active_holds has
\* no entry with id h from any HOLD published before it, recent_bookings
\* contains the BOOKED payload, and the holds of other ids stay, in order.
C3_BookedRemovesHold == []C3_State /\ [][C3_Step]_vars

C3_Witness ==
    /\ Len(event_history) = 3
    /\ Quiet
    /\ event_history[1].name = "HOLD" /\ event_history[1].payload = [id |-> "h1"]
    /\ event_history[2].name = "HOLD" /\ event_history[2].payload = [id |-> "h2"]
    /\ event_history[3].name = "BOOKED" /\ event_history[3].payload = [hold_id |-> "h1"]
    /\ Len(heap[state.active_holds]) = 1
    /\ Len(heap[state.recent_bookings]) = 1

\* the list each event name owns
Owner == [SEARCH |-> "search_queries", HOLD |-> "active_holds",
          CANCELLED |-> "cancellations", PRICE_CHANGED |-> "price_changes",
          BOOKED |-> "recent_bookings"]

IsSubsequence(small, big) ==
    \E keep \in SUBSET DOMAIN big :
        LET Kept(i) == i \in keep
            idx == SelectSeq([i \in DOMAIN big |-> i], Kept)
        IN small = [i \in DOMAIN idx |-> big[idx[i]]]

C4_Step ==
    \A t \in Tasks :
        Reduces(t) =>
            LET event == tasks[t].event
                before == Deref(state, heap)
                after == Deref(state', heap')
            IN /\ Last(event_history') = event
               /\ \A k \in StateKeys :
                    IF event.name \in DOMAIN Owner /\ k = Owner[event.name]
                    THEN /\ Len(after[k]) = Len(before[k]) + 1
                         /\ Front(after[k]) = before[k]
                         /\ Carries(Last(after[k]), event.payload)
                         /\ DOMAIN Last(after[k]) =
                               DOMAIN event.payload \cup {"event_id", "timestamp"}
                         /\ Last(after[k]).event_id = event.id
                         /\ Last(after[k]).timestamp = event.ts
                    ELSE IF event.name = "BOOKED" /\ k = "active_holds"
                    THEN IsSubsequence(after[k], before[k])
                    ELSE after[k] = before[k]

\* C4: the reducer appends exactly one entry (payload, event id, timestamp)
\* to the list of the event's name and leaves every other list unchanged,
\* except that BOOKED may remove from active_holds; an event of any other
\* name changes no list but is in the history.
C4_ReducerFrame == [][C4_Step]_vars

C4_Witness ==
    /\ tasks[1].pc = "notify"
    /\ tasks[1].event.name = "PING"
    /\ Len(event_history) = 3
    /\ Len(heap[state.cancellations]) = 1
    /\ Len(heap[state.price_changes]) = 1

Limits == 0..MaxLimit
NameFilters == AllNames \cup {PyNone}

MinOf(a, b) == IF a <= b THEN a ELSE b

\* the last n elements of a sequence
LastN(seq, n) == SubSeq(seq, Len(seq) - n + 1, Len(seq))

Matching(hist, name) ==
    LET Match(e) == name = PyNone \/ e.name = name IN SelectSeq(hist, Match)

\* C5: get_event_history(limit, name) returns exactly the last min(limit, m)
\* matching events, most recent last, for every limit >= 0.
C5_HistoryLimit ==
    \A limit \in Limits, name \in NameFilters :
        LET m == Matching(event_history, name)
        IN GetEventHistory(event_history, limit, name) = LastN(m, MinOf(limit, Len(m)))

\* C6: the mapping returned by get_state keeps the contents it had when it
\* was returned, whatever is published later.
C6_SnapshotImmutable ==
    snap # <<>> => Deref(snap[1], heap) = snapVal[1]

\* C7: with publish calls interleaved on the event loop, whenever a task
\* runs subscriber callbacks or the loop is free for any task, the derived
\* state is the reducer folded over the history, and each task's event is
\* in the history exactly once.
C7_AtomicAppendReduce ==
    /\ ((\E t \in Tasks : tasks[t].pc = "notify")
          \/ (\A t \in Tasks : tasks[t].pc \in {"idle", "await"}))
       => Deref(state, heap) = Fold(event_history)
    /\ \A t \in Tasks :
          Publishing(t) =>
             Cardinality({i \in DOMAIN event_history : event_history[i] = tasks[t].event}) = 1
    /\ \A i \in DOMAIN event_history : event_history[i].id = i

C7_Witness ==
    /\ tasks[1].pc = "await"
    /\ tasks[2].pc = "notify"
    /\ tasks[2].event.name = "BOOKED"
    /\ tasks[1].event.name = "HOLD"
    /\ Len(event_history) = 3

RegisteredIds == {sub.id : sub \in AllSubscriptions}

\* sum of get_subscriber_count(name) over a set of event names
RECURSIVE CountSum(_)
CountSum(S) == IF S = {} THEN 0
               ELSE LET n == CHOOSE x \in S : TRUE
                    IN GetSubscriberCount(subscribers, n) + CountSum(S \ {n})

\* the subscriptions without the one of the given id, order kept
Without(subs, sub_id) ==
    LET Other(sub) == sub.id # sub_id
    IN [n \in DOMAIN subs |-> SelectSeq(subs[n], Other)]

C8_State ==
    /\ GetSubscriberCount(subscribers, PyNone) = issued - Cardinality(removed)
    /\ GetSubscriberCount(subscribers, PyNone) = CountSum(AllNames)
    /\ Cardinality(RegisteredIds) = GetSubscriberCount(subscribers, PyNone)
    /\ \A t \in Tasks : \A i \in DOMAIN tasks[t].notified :
          tasks[t].notified[i] \notin removed

C8_Step ==
    /\ issued' # issued =>
          /\ ret' = <<"subscribe", issued', TRUE>>
          /\ issued' \notin 1..issued
          /\ issued' \notin RegisteredIds
          /\ RegisteredIds' = RegisteredIds \cup {issued'}
    /\ \A id \in 1..MaxSubs :
          Unsubscribe(id) =>
             IF id \in RegisteredIds
             THEN /\ ret' = <<"unsubscribe", id, TRUE>>
                  /\ subscribers' = Without(subscribers, id)
                  /\ id \notin RegisteredIds'
             ELSE /\ ret' = <<"unsubscribe", id, FALSE>>
                  /\ subscribers' = subscribers

\* C8: subscribe returns a new id each time; unsubscribe(id) returns true and
\* removes exactly that subscription when it is registered, else returns
\* false and changes nothing; a removed subscription is not notified again;
\* the total count is subscribes minus successful unsubscribes and is the
\* sum of the per-name counts.
C8_Subscriptions == []C8_State /\ [][C8_Step]_vars

C8_Witness ==
    /\ ret = <<"unsubscribe", 1, FALSE>>
    /\ removed = {1}
    /\ issued = 2
    /\ RegisteredIds = {2}
    /\ Len(event_history) = 2

\* ------------------------------------------------------- claims, cache
CacheIdle == \A c \in Callers : callers[c].pc = "idle"

\* the step in which caller c starts a call
Starts(c) == clock' = clock + 1 /\ callers[c].pc = "idle"

C9_Step ==
    \A c \in Callers :
        Starts(c) =>
            IF callers'[c].key \in CachedKeys(cache)
            THEN /\ hits' = hits + 1
                 /\ misses' = misses
                 /\ Len(cache') = Len(cache)
                 /\ callers'[c].pc = "idle"
            ELSE /\ misses' = misses + 1
                 /\ hits' = hits

C9_State ==
    LET stats == GetMemoizationStats(cache, hits, misses)
    IN /\ CacheIdle => hits + misses = calls
       /\ stats.hits = hits /\ stats.misses = misses /\ stats.currsize = Len(cache)
       /\ stats.hit_ratio[1] * (hits + misses) = hits * stats.hit_ratio[2]
       /\ stats.hit_ratio[2] > 0
       /\ (hits = 0 /\ misses = 0) => stats.hit_ratio[1] = 0

\* C9: a call with a cached argument tuple adds exactly 1 to hits and leaves
\* misses and currsize alone, a call with an uncached tuple adds exactly 1
\* to misses and leaves hits alone, hits + misses is the number of completed
\* calls since the last clear, and hit_ratio is hits/(hits+misses), 0 when
\* both are 0.
C9_HitMissCounters == []C9_State /\ [][C9_Step]_vars

C9_Witness ==
    /\ CacheIdle
    /\ hits = 2
    /\ misses = 3
    /\ calls = 5
    /\ Len(cache) = 2
    /\ callers[1].outcome = "hit"

\* the cached key whose most recent access is the oldest
Oldest(la) == CHOOSE k \in DOMAIN la : \A j \in DOMAIN la : la[k] <= la[j]

C10_Step ==
    \A c \in Callers :
        /\ (callers[c].pc = "compute" /\ callers'[c].outcome = "miss"
              /\ Len(cache) = maxsize /\ callers[c].key \notin CachedKeys(cache)) =>
              /\ CachedKeys(cache') =
                    (CachedKeys(cache) \ {Oldest(lastAccess)}) \cup {callers[c].key}
              /\ Len(cache') = maxsize
        /\ (Starts(c) /\ callers'[c].outcome = "hit") =>
              /\ Last(cache').key = callers'[c].key
              /\ Len(cache) > 1 => Oldest(lastAccess') # callers'[c].key

C10_State ==
    /\ Len(cache) <= maxsize
    /\ GetMemoizationStats(cache, hits, misses).currsize <= maxsize
    /\ Cardinality(CachedKeys(cache)) = Len(cache)

\* C10: the cache never holds more than maxsize entries; an insert into a
\* full cache evicts exactly the key whose last access (insert or hit) is
\* the oldest and inserts the new key; a hit makes its key the most recently
\* used, so that key is not the next one evicted.
C10_LruEviction == []C10_State /\ [][C10_Step]_vars

C10_Witness ==
    /\ CacheIdle
    /\ Len(cache) = maxsize
    /\ Args(1, Valid) \in CachedKeys(cache)
    /\ Args(2, Valid) \notin CachedKeys(cache)
    /\ Args(Warm + 3, Valid) \in CachedKeys(cache)
    /\ hits = 1

\* ---------------------------------------------- claims, concurrent quotes
RaceIdle == \A c \in Racers : callers[c].pc = "idle"

EntriesFor(ch, key) == {i \in DOMAIN ch : ch[i].key = key}

C11_State ==
    /\ RaceIdle => hits + misses = calls
    /\ Len(cache) <= maxsize
    /\ GetMemoizationStats(cache, hits, misses).currsize <= maxsize
    /\ \A i \in DOMAIN cache : Cardinality(EntriesFor(cache, cache[i].key)) = 1
    /\ \A c, d \in Racers :
          (callers[c].key = callers[d].key /\ callers[c].result.ok /\ callers[d].result.ok) =>
              /\ callers[c].result.nights = callers[d].result.nights
              /\ callers[c].result.total_price = callers[d].result.total_price
              /\ callers[c].result.currency = callers[d].result.currency

C11_Step ==
    \A c \in Racers :
        (callers[c].pc = "compute" /\ callers'[c].pc = "idle") =>
            IF ParseDate(callers[c].key[4]) # -1 /\ ParseDate(callers[c].key[5]) # -1
            THEN /\ callers'[c].result.ok
                 /\ Cardinality(EntriesFor(cache', callers[c].key)) = 1
                 /\ Len(cache') <= maxsize
            ELSE cache' = cache

\* C11: callers that run quote_offer at the same time with the same uncached
\* argument tuple each get a quote with the same nights, total_price and
\* currency; the body may run once per caller, but afterwards the cache
\* holds exactly one entry for the key, never more than maxsize entries,
\* and hits + misses is the number of calls.
C11_ConcurrentMiss == []C11_State /\ [][C11_Step]_vars

C11_Witness ==
    /\ RaceIdle
    /\ \A c \in Racers : callers[c].outcome = "miss" /\ callers[c].key = Args(Warm + 3, Valid)
    /\ misses = Warm + NumCallers
    /\ hits = 0
    /\ calls = Warm + NumCallers
    /\ Len(cache) = Warm + 1
    /\ Cardinality(EntriesFor(cache, Args(Warm + 3, Valid))) = 1

\* -------------------------------------------------- claims, quote values
\* days from checkin to checkout, by the calendar
StayNights(checkin, checkout) ==
    CASE <<checkin, checkout>> = <<"2024-01-01", "2024-01-03">> -> 2
      [] <<checkin, checkout>> = <<"2024-01-15", "2024-01-18">> -> 3
      [] <<checkin, checkout>> = <<"2024-01-03", "2024-02-01">> -> 29

ValidStay(key) == <<key[4], key[5]>> \in StayDates \ {Invalid}

\* C12: for valid dates quote_offer returns nights = the days from checkin
\* to checkout, total_price = 100 * nights and currency "USD", whatever the
\* hotel, room, rate and guests are, and echoes its six arguments
\* (2024-01-01 to 2024-01-03: 2 nights, total 200).
C12_QuoteValue ==
    \A c \in Callers :
        LET key == callers[c].key
            q == callers[c].result
        IN /\ (callers[c].outcome \in {"hit", "miss"}) => (q.ok /\ ValidStay(key))
           /\ (callers[c].outcome = "raised") => ~ValidStay(key)
           /\ q.ok =>
                 /\ q.nights = StayNights(key[4], key[5])
                 /\ q.total_price = 100 * q.nights
                 /\ q.currency = "USD"
                 /\ <<q.hotel_id, q.room_type_id, q.rate_id, q.checkin, q.checkout,
                       q.guests>> = key
                 /\ (<<key[4], key[5]>> = Valid) => (q.nights = 2 /\ q.total_price = 200)
                 /\ \A other \in QuoteArgs :
                       (other[4] = key[4] /\ other[5] = key[5]) =>
                           /\ Compute(other, clock).nights = q.nights
                           /\ Compute(other, clock).total_price = q.total_price

C12_Witness ==
    /\ callers[1].outcome = "hit"
    /\ callers[1].key = <<2, "room_2", "rate_2", "2024-01-03", "2024-02-01", 1>>
    /\ callers[1].result.total_price = 2900
    /\ hits = 2

\* ------------------------------------------------------ claims, booking
\* a guest with an id, a non-empty name and an email containing '@'
ValidGuest(guest) ==
    /\ "id" \in DOMAIN guest
    /\ Truthy(DictGet(guest, "name"))
    /\ ContainsAt(DictGet(guest, "email"))

NoSoldOut(items) == \A i \in DOMAIN items : ~SoldOut(items[i].room_type_id)

\* the message of the first validator, in pipeline order, that rejects
FirstFailure(guest, items) ==
    LET data == [guest |-> guest, items |-> items]
    IN IF ~ValidateGuestData(data).is_right THEN ValidateGuestData(data).error
       ELSE ValidateAvailability(data).error

\* C13: create_booking with a valid guest and no sold-out item runs
\* validate, compute total, finalize in this order and returns
\* Right(Booking) with status 'confirmed', the guest's id, the items and
\* total = sum(guests * 100 * 3).
C13_CreateBooking ==
    (booking.called /\ ValidGuest(booking.guest) /\ NoSoldOut(booking.items)) =>
        /\ booking.trace = Stages
        /\ booking.result.is_right
        /\ booking.result.value.status = "confirmed"
        /\ booking.result.value.guest_id = booking.guest.id
        /\ booking.result.value.items = booking.items
        /\ booking.result.value.total = SumPrices(booking.items)

\* C14: when a validator fails, create_booking returns Left with the
\* message of the first failing validator in pipeline order and has invoked
\* neither the quoter nor the finalizer.
C14_ValidationFailure ==
    (booking.called /\ "id" \in DOMAIN booking.guest
       /\ ~(ValidGuest(booking.guest) /\ NoSoldOut(booking.items))) =>
        /\ booking.result = Left(FirstFailure(booking.guest, booking.items))
        /\ "_finalize_booking" \notin Range(booking.trace)
        /\ "_calculate_totals" \notin Range(booking.trace)

\* ----------------------------------------------------- claims, workflow
EventsNamed(name) == {i \in DOMAIN event_history : event_history[i].name = name}

\* C15: the workflow never raises; an unsuccessful result carries a step in
\* {search, quotation, booking} and an error; an empty search returns step
\* 'search' with no quote started, no event published and no create_booking
\* call; a search with offers but no successful quote returns step
\* 'quotation' with the failed quotes, no HOLD or BOOKED event and no
\* create_booking call.
C15_WorkflowStops ==
    /\ flow.pc # "raised"
    /\ (flow.pc = "done" /\ ~flow.out.success) =>
          /\ flow.out.step \in {"search", "quotation", "booking"}
          /\ "error" \in DOMAIN flow.out
    /\ (flow.pc = "done" /\ flow.search_results = <<>>) =>
          /\ ~flow.out.success /\ flow.out.step = "search"
          /\ batch.pc = "idle"
          /\ event_history = <<>>
          /\ ~booking.called
    /\ (flow.pc = "done" /\ flow.search_results # <<>> /\ batch.pc = "done"
          /\ batch.out.successful = <<>>) =>
          /\ ~flow.out.success /\ flow.out.step = "quotation"
          /\ flow.out.failed_quotes = batch.out.failed
          /\ EventsNamed("HOLD") = {} /\ EventsNamed("BOOKED") = {}
          /\ ~booking.called

\* C16: for a search with offers and a valid guest the workflow ends with
\* success, status 'confirmed', one HOLD per cart item followed by exactly
\* one BOOKED, and items_booked = the number of HOLD events.
C16_WorkflowSuccess ==
    (flow.pc = "done" /\ flow.search_results # <<>> /\ ValidGuest(flow.guest)) =>
        /\ flow.out.success
        /\ flow.out.status = "confirmed"
        /\ booking.called /\ booking.result.is_right
        /\ Cardinality(EventsNamed("BOOKED")) = 1
        /\ flow.out.items_booked = Cardinality(EventsNamed("HOLD"))
        /\ \A i \in EventsNamed("HOLD") : \A j \in EventsNamed("BOOKED") : i < j

C18_ValidItemsSucceed ==
    batch.pc = "done" =>
        /\ \A i \in DOMAIN batch.items :
              batch.items[i] \in ValidItems =>
                  \A j \in DOMAIN batch.out.failed :
                      batch.out.failed[j].item # batch.items[i]
        /\ (\A i \in DOMAIN batch.items : batch.items[i] \in ValidItems) =>
              /\ batch.out.success_count = Len(batch.items)
              /\ batch.out.failure_count = 0

\* the indices of the tasks that ended with an exception
Faulty(results) == {i \in DOMAIN results : results[i].raised}

\* the j-th smallest element of a set of numbers
Nth(S, j) == CHOOSE i \in S : Cardinality({k \in S : k <= i}) = j

C19_State ==
    batch.pc = "done" =>
        LET out == batch.out
            faulty == Faulty(batch.results)
            fine == DOMAIN batch.results \ faulty
        IN /\ out.total_count = Len(batch.items)
           /\ out.total_count = out.success_count + out.failure_count
           /\ out.success_count = Len(out.successful)
           /\ out.failure_count = Len(out.failed)
           /\ Len(out.failed) = Cardinality(faulty)
           /\ Len(out.successful) = Cardinality(fine)
           /\ \A j \in DOMAIN out.failed :
                 out.failed[j] = [item |-> batch.items[Nth(faulty, j)],
                                  error |-> batch.results[Nth(faulty, j)].error]
           /\ \A j \in DOMAIN out.successful :
                 out.successful[j] = batch.results[Nth(fine, j)].value

C19_Step ==
    /\ (batch.pc = "running" /\ batch'.pc = "done") =>
          /\ AllFinished(batch.results)
          /\ batch'.results = batch.results
          /\ batch'.items = batch.items
    /\ (batch.pc = "running" /\ batch'.pc = "running") =>
          /\ batch'.items = batch.items
          /\ \A i \in DOMAIN batch.results :
                ~IsPending(batch.results[i]) => batch'.results[i] = batch.results[i]
    /\ batch'.pc \in {"idle", "running", "done"}

\* C19: quote_batch never raises and returns only after every task has
\* finished; total_count = len(items) = success_count + failure_count;
\* every item has exactly one entry, in 'successful' or in 'failed'; a
\* failed entry carries the original item and the fault's message; both
\* lists keep the relative order of the items.
C19_BatchAccounting == []C19_State /\ [][C19_Step]_vars

C19_Witness ==
    /\ batch.pc = "done"
    /\ Len(batch.items) = 2
    /\ batch.items[1] \in ValidItems
    /\ batch.items[2] = NoArguments
    /\ batch.out.failure_count = 2
    /\ batch.out.failed[1].item = batch.items[1]
    /\ batch.out.failed[1].error =
          "BaseEventLoop.run_in_executor() got an unexpected keyword argument 'hotel_id'"
    /\ batch.out.failed[2].error =
          "QuoteService.calculate_quote() missing 6 required positional arguments"

\* --------------------------------------------- claims, parallel search
\* C20: search_parallel returns one entry per request, entry i being the
\* outcome of request i, whether or not a search faults; results_per_search[i]
\* is the number of offers of request i and total_searches is the length of
\* results_per_search.
C20_IndexAligned ==
    par.pc = "done" =>
        /\ Len(par.out) = Len(par.requests)
        /\ \A i \in DOMAIN par.requests :
              ~par.results[i].raised =>
                  /\ par.out[i] = par.results[i].value
                  /\ par.report.results_per_search[i] = Len(par.results[i].value)
        /\ par.report.total_searches = Len(par.report.results_per_search)

\* ------------------------------------------------- claims, catalogue search
\* where an offer stands in a list of distinct offers
PosIn(list, x) == CHOOSE i \in DOMAIN list : list[i] = x

\* the configured scorers on whose key two offers differ
Differing(scorers, a, b) ==
    {k \in DOMAIN scorers : Score(scorers[k], a) # Score(scorers[k], b)}

Max(S) == CHOOSE x \in S : \A y \in S : y <= x

\* the default order: available first, then more stars, then lower price
DefaultOrder(a, b) ==
    \/ a.available /\ ~b.available
    \/ a.available = b.available /\ a.hotel.stars > b.hotel.stars
    \/ /\ a.available = b.available
       /\ a.hotel.stars = b.hotel.stars
       /\ a.price_per_night <= b.price_per_night

\* C21: the result of SearchService.search is a permutation of the filtered
\* offers in which, of two offers, the one with the larger key of the last
\* scorer that tells them apart comes first, and offers that no scorer tells
\* apart keep the order of the generator; with the default scorers available
\* offers come first, then more stars, then the lower price per night.
C21_SearchOrder ==
    search.pc = "sorted" =>
        LET R == search.results
            F == search.filtered
        IN /\ Len(R) = Len(F)
           /\ {R[i] : i \in DOMAIN R} = {F[i] : i \in DOMAIN F}
           /\ \A i, j \in DOMAIN R :
                 i < j =>
                    LET d == Differing(search.scorers, R[i], R[j])
                    IN IF d = {} THEN PosIn(F, R[i]) < PosIn(F, R[j])
                       ELSE Score(search.scorers[Max(d)], R[i])
                               > Score(search.scorers[Max(d)], R[j])
           /\ search.scorers = DefaultScorers =>
                 \A i, j \in DOMAIN R : i < j => DefaultOrder(R[i], R[j])

\* the default scorers have reordered five offers: an available four-star
\* offer first, the cheaper of two offers of one room before the dearer
C21_Witness ==
    /\ search.pc = "sorted"
    /\ search.scorers = DefaultScorers
    /\ Len(search.results) = 5
    /\ search.results # search.filtered
    /\ search.results[1].rate.id = "a5"
    /\ search.results[2].rate.id = "a2"
    /\ search.results[3].rate.id = "a1"
    /\ search.results[4].rate.id = "a4"
    /\ search.results[5].rate.id = "a3"

\* the (hotel, room type, rate) positions that belong together
Triples(cat) ==
    {t \in (DOMAIN cat.hotels) \X (DOMAIN cat.room_types) \X (DOMAIN cat.rates) :
        /\ cat.room_types[t[2]].hotel_id = cat.hotels[t[1]].id
        /\ cat.rates[t[3]].room_type_id = cat.room_types[t[2]].id}

\* walk order: hotel, then that hotel's rooms, then that room's rates
Before(t, u) ==
    \/ t[1] < u[1]
    \/ t[1] = u[1] /\ t[2] < u[2]
    \/ t[1] = u[1] /\ t[2] = u[2] /\ t[3] < u[3]

\* the amount of the first price record of the rate, or 100
PriceOf(cat, rate_id) ==
    LET records == {i \in DOMAIN cat.prices : cat.prices[i].rate_id = rate_id}
    IN IF records = {} THEN 100 ELSE cat.prices[Min(records)].amount

\* some availability record of the room has available > 0
AvailableOf(cat, room_type_id) ==
    \E i \in DOMAIN cat.availability :
        /\ cat.availability[i].room_type_id = room_type_id
        /\ cat.availability[i].available > 0

\* the offer satisfies every filter the request gives
SatisfiesRequest(cat, filters, t) ==
    LET hotel == cat.hotels[t[1]]
        room_type == cat.room_types[t[2]]
    IN /\ "city" \in DOMAIN filters => Lower(hotel.city) = Lower(filters.city)
       /\ "min_stars" \in DOMAIN filters => hotel.stars >= filters.min_stars
       /\ "guests" \in DOMAIN filters => room_type.capacity >= filters.guests
       /\ "max_price" \in DOMAIN filters =>
             PriceOf(cat, cat.rates[t[3]].id) <= filters.max_price
       /\ "features" \in DOMAIN filters =>
             filters.features \subseteq (hotel.features \cup room_type.features)

\* the i-th result is the offer of triple t
IsOfferOf(cat, result, t) ==
    /\ result.hotel = cat.hotels[t[1]]
    /\ result.room_type = cat.room_types[t[2]]
    /\ result.rate = cat.rates[t[3]]
    /\ result.price_per_night = PriceOf(cat, cat.rates[t[3]].id)
    /\ result.available = AvailableOf(cat, cat.room_types[t[2]].id)

\* C22: for a positive limit or none, lazy_search_results yields exactly
\* the first min(limit, m) of the m offers that satisfy every filter given
\* in the request, in walk order, each with the first price of its rate (or
\* 100) and the availability of its room; and a search for city 'Miami' over
\* the fallback data returns offers of hotel_2 only.
C22_LazySearch ==
    /\ (search.pc = "listed" /\ ("limit" \in DOMAIN search.kwargs => search.kwargs.limit > 0)) =>
          LET cat == Catalogues[search.cat]
              matching == {t \in Triples(cat) : SatisfiesRequest(cat, search.request, t)}
              m == Cardinality(matching)
              n == IF "limit" \in DOMAIN search.kwargs /\ search.kwargs.limit < m
                   THEN search.kwargs.limit ELSE m
          IN /\ Len(search.results) = n
             /\ \A i \in 1..n :
                   \E t \in matching :
                      /\ Cardinality({u \in matching : Before(u, t)}) = i - 1
                      /\ IsOfferOf(cat, search.results[i], t)
    /\ (/\ search.pc = "sorted"
        /\ search.cat = 2
        /\ "city" \in DOMAIN search.request
        /\ search.request.city = "Miami") =>
          \A i \in DOMAIN search.results : search.results[i].hotel.id = "hotel_2"

\* ----------------------------------------------------- claims, generator
\* the position in the walk of the k-th candidate that matches (0 for none)
MatchPosition(cat, filters, k) ==
    LET all == Candidates(cat)
        at == {i \in DOMAIN all :
                  /\ Matches(filters, all[i])
                  /\ Cardinality({j \in 1..i : Matches(filters, all[j])}) = k}
    IN IF at = {} THEN 0 ELSE Min(at)

\* the generator never holds more than limit results
C23_State ==
    "limit" \in DOMAIN gen.kwargs => Len(gen.results) <= gen.kwargs.limit

\* with the limit-th result yielded no further candidate is examined
C23_Step ==
    ("limit" \in DOMAIN gen.kwargs /\ Len(gen.results) >= gen.kwargs.limit)
        => gen'.examined = gen.examined

\* a consumer holding k results has caused no evaluation after the k-th match
C23_Consumed ==
    gen.pc \in {"suspended", "closed"} =>
        gen.examined = MatchPosition(Catalogues[gen.cat], gen.filters, Len(gen.results))

\* C23: for every limit >= 0 the generator yields at most limit results,
\* examines no further candidate once the limit-th result is yielded, also
\* when it is asked for another element, and a consumer that stops after
\* k results has caused no evaluation of candidates after the k-th match.
C23_StopsAtLimit == []C23_State /\ [][C23_Step]_vars /\ []C23_Consumed

\* -------------------------------------------------- claims, unique hotels
\* the results of the requests that returned, one after the other in
\* request order
RECURSIVE Joined(_)
Joined(results) ==
    IF results = <<>> THEN <<>>
    ELSE (IF Head(results).raised THEN <<>> ELSE Head(results).value) \o Joined(Tail(results))

RECURSIVE SumOf(_)
SumOf(numbers) == IF numbers = <<>> THEN 0 ELSE Head(numbers) + SumOf(Tail(numbers))

\* the first place of a hotel id in a list of results
FirstOf(list, hotel_id) == Min({i \in DOMAIN list : list[i].hotel.id = hotel_id})

\* C24: unique_results holds, for each hotel id in the flattened results of
\* the requests taken in request order, exactly its first result, in the
\* order of the first occurrences; unique_hotels is the length of
\* unique_results and at most total_results, which is the sum of
\* results_per_search.
C24_UniqueHotels ==
    par.pc = "done" =>
        LET all == Joined(par.results)
            U == par.report.unique_results
        IN /\ {U[k].hotel.id : k \in DOMAIN U} = {all[i].hotel.id : i \in DOMAIN all}
           /\ \A k \in DOMAIN U : U[k] = all[FirstOf(all, U[k].hotel.id)]
           /\ \A k, l \in DOMAIN U :
                 k < l => FirstOf(all, U[k].hotel.id) < FirstOf(all, U[l].hotel.id)
           /\ par.report.unique_hotels = Len(U)
           /\ par.report.unique_hotels <= par.report.total_results
           /\ par.report.total_results = Len(all)
           /\ par.report.total_results = SumOf(par.report.results_per_search)

\* two requests returned, several results are of one hotel and differ, and
\* the hotels found by the second request were partly found by the first
C24_Witness ==
    /\ par.pc = "done"
    /\ Len(par.out) = 2
    /\ Len(par.out[1]) > 0
    /\ Len(par.out[2]) > Len(par.out[1])
    /\ par.report.unique_hotels >= 2
    /\ par.report.unique_hotels < par.report.total_results
    /\ \E i, j \in DOMAIN par.out[2] :
          /\ i < j
          /\ par.out[2][i].hotel.id = par.out[2][j].hotel.id
          /\ par.out[2][i] # par.out[2][j]

\* ------------------------------------------------- claims, search timeout
\* what the caller got is the whole result of the search, or None after the
\* future was cancelled
C25_Returned ==
    /\ timed.returned = "value" =>
          /\ ~Search(timed.request).raised
          /\ timed.value = Search(timed.request).value
    /\ timed.returned = "None" => timed.future = "cancelled" /\ timed.value = <<>>

\* the search of a call that was made is never cancelled
C25_NotCancelled == timed.work # "cancelled"

\* once the caller has its value, nothing changes it
C25_Stable ==
    timed.pc = "done" =>
        /\ timed'.pc = "done"
        /\ timed'.returned = timed.returned
        /\ timed'.value = timed.value

\* C25: search_with_timeout returns the complete result of the search or,
\* when the timeout expires first, None; the search is not cancelled by the
\* expiry and runs on, and its later completion neither changes the value
\* returned nor raises in the caller.
C25_SearchTimeout == []C25_Returned /\ []C25_NotCancelled /\ [][C25_Stable]_vars

\* --------------------------------------------------- claims, Maybe, Either
\* map and bind of the class of a value
MapOf(m, func) == IF "is_just" \in DOMAIN m THEN MaybeMap(m, func).out ELSE EitherMap(m, func).out
BindOf(m, func) == IF "is_just" \in DOMAIN m THEN MaybeBind(m, func).out ELSE EitherBind(m, func).out

\* the functions bind may be given on a value of that class
Binders(m) == IF "is_just" \in DOMAIN m THEN [Values -> Maybes] ELSE [Values -> Eithers]

\* the value has failed: Nothing or a Left
HasFailed(m) == IF "is_just" \in DOMAIN m THEN ~m.is_just ELSE ~m.is_right

\* the laws, for the value the chain has reached and all functions
C26_Laws ==
    LET m == chain.m
    IN /\ MapOf(m, [x \in Values |-> x]) = m
       /\ \A f \in Binders(m) :
             /\ ~HasFailed(m) => BindOf(m, f) = f[m.value]
             /\ HasFailed(m) => BindOf(m, f) = m
             /\ \A g \in Binders(m) :
                   BindOf(BindOf(m, f), g) = BindOf(m, [x \in Values |-> BindOf(f[x], g)])

\* once the value has failed no function given later is called and the
\* failure stays what it was
C26_ShortCircuit ==
    HasFailed(chain.m) => chain'.calls = chain.calls /\ chain'.m = chain.m

\* C26: for Maybe and Either, map(identity) gives an equal value, bind on
\* Just(x) or Right(x) gives f(x), bind on Nothing or Left(e) gives it back,
\* bind is associative, and once a chain is Nothing or Left no function
\* given to a later map or bind is called and the error stays unchanged.
C26_MonadLaws == []C26_Laws /\ [][C26_ShortCircuit]_vars

\* a chain from Right that failed at its second call with error e2 and was
\* then given one more function, which was not called
C26_Witness ==
    /\ chain.start = Right(0)
    /\ chain.m = Left("e2")
    /\ chain.ops = <<"map", "bind", "map">>
    /\ chain.calls = 2

\* ---- C27: validate_booking returns Right(booking) exactly when every item
\* passes validate_cart_item and the sum of guests * 100 is within 10 of the
\* booking's total; otherwise the error is the first failing item's (the total
\* check is then not evaluated) or, when every item passes, a price mismatch;
\* a difference of 10 is accepted and one of 11 rejected.
ItemResult(i) ==
    ValidateCartItem(checked.booking.items[i], checked.availability, <<>>)
Failing == {i \in DOMAIN checked.booking.items : ~ItemResult(i).is_right}
Difference ==
    LET items == checked.booking.items
        d == SumOf([i \in DOMAIN items |-> items[i].guests * 100]) - checked.booking.total
    IN  IF d < 0 THEN 0 - d ELSE d
C27_ValidateBooking ==
    checked.pc = "done" =>
        /\ checked.result = Right(checked.booking) <=> (Failing = {} /\ Difference <= 10)
        /\ Failing # {} =>
              /\ checked.result = ItemResult(Min(Failing))
              /\ checked.total_calls = 0
        /\ (Failing = {} /\ Difference > 10) =>
              /\ ~checked.result.is_right
              /\ checked.result.error[1] = "Price mismatch detected. Expected: "
              /\ checked.total_calls = 1
        /\ (Failing = {} /\ Difference = 10) => checked.result.is_right
        /\ (Failing = {} /\ Difference = 11) => ~checked.result.is_right
C27_Witness ==
    /\ checked.pc = "done"
    /\ Len(checked.booking.items) = 2
    /\ Failing = {1, 2}
    /\ ItemResult(1) # ItemResult(2)
    /\ checked.result = Left(<<"Guest count exceeds maximum room capacity">>)
    /\ checked.total_calls = 0

\* --------------------------------------------------------- claims, pipe
\* ---- C28: pipe(x, f, g, h) = h(g(f(x))): the functions are applied left to
\* right, the first listed first; PipeLine.run applies them in the order of
\* the map calls; calculate_quote applies the price, then the tax, then the
\* discount calculator, so that total_with_tax is derived from base_price and
\* final_total from total_with_tax.
RECURSIVE LeftToRight(_, _)
LeftToRight(functions, x) ==
    IF functions = <<>> THEN x ELSE LeftToRight(Tail(functions), Head(functions)[x])
C28_PipeOrder ==
    piped.pc = "done" =>
        /\ piped.kind \in {"pipe", "PipeLine"} =>
              piped.result[1] = LeftToRight(piped.functions, piped.value[1])
        /\ piped.kind = "calculate_quote" =>
              LET quote == piped.result[1]
              IN  /\ piped.trace = Calculators
                  /\ quote.base_price = quote.nights * 100 * quote.guests
                  /\ quote.total_with_tax = quote.base_price * 115
                  /\ \E early \in BOOLEAN :
                        quote.final_total =
                            ApplyDiscounts([checkin |-> quote.checkin, nights |-> quote.nights,
                                            total_with_tax |-> quote.total_with_tax],
                                           early).final_total

\* ------------------------------------------------- claims, booked holds
\* ---- C29: a BOOKED event whose payload has no hold id leaves active_holds
\* unchanged, also the entries recorded from HOLD payloads without an 'id'
\* (as the workflow's HOLD events, which carry cart_item_id, followed by its
\* BOOKED event, which carries booking_id); a BOOKED event removes only the
\* holds whose id equals the hold id it names.
C29_Step ==
    \A t \in Tasks :
        (Reduces(t) /\ tasks[t].event.name = "BOOKED") =>
            LET payload == tasks[t].event.payload
                before == Deref(state, heap).active_holds
                after == Deref(state', heap').active_holds
                Named(hold) == /\ "hold_id" \in DOMAIN payload
                               /\ "id" \in DOMAIN hold
                               /\ hold.id = payload.hold_id
                Stays(hold) == ~Named(hold)
            IN  after = SelectSeq(before, Stays)
C29_BookedWithoutHoldId == [][C29_Step]_vars

\* ------------------------------------------ claims, callbacks calling the bus
\* ---- C30: when a callback calls unsubscribe (for itself or for an earlier
\* subscriber of the event's name) or subscribe while publish is notifying,
\* every other subscriber registered for the name when publish started, not
\* unsubscribed, and whose filter accepts the event is notified exactly once,
\* in registration order.
C30_Step ==
    \A t \in Tasks :
        (tasks[t].pc = "notify" /\ tasks'[t].pc = "idle") =>
            LET Due(sub) == sub.id \notin removed /\ FilterOutcome(sub) = "call"
                due == SelectSeq(registered, Due)
                IsDue(sub_id) == \E i \in DOMAIN due : due[i].id = sub_id
            IN  SelectSeq(tasks[t].notified, IsDue) = [i \in DOMAIN due |-> due[i].id]
C30_NotifiedOnce == [][C30_Step]_vars

====
